---- MODULE Spec2Model ----
(***************************************************************************)
(* A model of the stale-while-revalidate cache of src/src/cache.ts.        *)
(*                                                                         *)
(* The cache is the JavaScript Map `cache` (kept here as the sequence of   *)
(* its entries in insertion order, which is the order Map iterates in) and *)
(* the Map `fetchPromises` of in-flight promises.  JavaScript runs one     *)
(* callback at a time, so every action below is one synchronous stretch of *)
(* code: a whole call of get/refresh/invalidate/clear up to its first      *)
(* await, the continuation of fetchAndCache after `await fetchFn()`, or    *)
(* the .catch callback of refreshInBackground.                             *)
(*                                                                         *)
(* `calls` is the log of the get/refresh calls made so far.  Call i is     *)
(* also the name of the loader invocation it makes (if any), of the        *)
(* promise fetchAndCache builds for it, and of the value that loader       *)
(* produces: the data of a load is tagged by the load, so two loads never  *)
(* produce the same value and "which value" is never ambiguous.            *)
(***************************************************************************)
EXTENDS Integers, Sequences, FiniteSets, TLC

\* Bounds of the model.
MaxTime == 2
MaxCalls == 3

\* CacheOptions of the cache under analysis (time is counted in ticks).
maxAge == 1
staleWhileRevalidate == 2
maxEntries == 1

\* The cache keys the callers use.
Keys == {"a", "b"}

VARIABLES
    now,            \* Date.now()
    cache,          \* Map<string, CacheEntry>: sequence of entries, insertion order
    fetchPromises,  \* Map<string, Promise>: key -> call whose promise is stored, 0 = none
    calls,          \* log of get/refresh calls, their loader and their outcome
    burst           \* history: key -> the load that a get of the key started when
                    \* the key had no entry, for as long as that load has not
                    \* settled and no refresh, invalidate or clear has touched
                    \* the key (only gets have); 0 = none

vars == <<now, cache, fetchPromises, calls, burst>>

----------------------------------------------------------------------------
\* The Map `cache`.

RECURSIVE IndexOf(_, _)
IndexOf(c, k) ==
    IF c = <<>> THEN 0
    ELSE IF c[Len(c)].key = k THEN Len(c)
    ELSE IndexOf(SubSeq(c, 1, Len(c) - 1), k)

CacheHas(c, k) == IndexOf(c, k) # 0

CacheGet(c, k) == c[IndexOf(c, k)]

\* Map.set: an existing key keeps its place, a new key goes last.
CacheSet(c, k, e) ==
    IF CacheHas(c, k) THEN [c EXCEPT ![IndexOf(c, k)] = e]
    ELSE Append(c, e)

\* Map.delete
\* (a Map.delete that removes the oldest entry when the key is absent)
CacheDelete_DropsOldest(c, k) ==
    IF \E n \in 1..Len(c) : c[n].key = k
    THEN SelectSeq(c, LAMBDA e : e.key # k)
    ELSE SubSeq(c, 2, Len(c))

\* Map.delete: a no-op when the key is absent.
CacheDelete(c, k) == SelectSeq(c, LAMBDA e : e.key # k)

Entry(k, d, t, la) == [key |-> k, data |-> d, timestamp |-> t, lastAccessed |-> la]

\* Array.prototype.sort((a, b) => a.lastAccessed - b.lastAccessed): a stable
\* sort, so entries that tie stay in Map order.
\* (a sort by the time of the write: a hit does not count as an access)
RECURSIVE InsertSorted_ByTimestamp(_, _)
InsertSorted_ByTimestamp(s, e) ==
    IF s = <<>> THEN <<e>>
    ELSE IF s[Len(s)].timestamp <= e.timestamp THEN Append(s, e)
    ELSE Append(InsertSorted_ByTimestamp(SubSeq(s, 1, Len(s) - 1), e), s[Len(s)])

\* (a sort that puts an entry before the earlier entries it ties with)
RECURSIVE InsertSorted_TiesReversed(_, _)
InsertSorted_TiesReversed(s, e) ==
    IF s = <<>> THEN <<e>>
    ELSE IF s[Len(s)].lastAccessed < e.lastAccessed THEN Append(s, e)
    ELSE Append(InsertSorted_TiesReversed(SubSeq(s, 1, Len(s) - 1), e), s[Len(s)])

RECURSIVE InsertSorted(_, _)
InsertSorted(s, e) ==
    IF s = <<>> THEN <<e>>
    ELSE IF s[Len(s)].lastAccessed <= e.lastAccessed THEN Append(s, e)
    ELSE Append(InsertSorted(SubSeq(s, 1, Len(s) - 1), e), s[Len(s)])

RECURSIVE SortByLastAccessed(_)
SortByLastAccessed(c) ==
    IF c = <<>> THEN <<>>
    ELSE InsertSorted(SortByLastAccessed(SubSeq(c, 1, Len(c) - 1)), c[Len(c)])

\* Mutant of Victims: one entry too few is removed.
Victims_OffByOne(c, cap) ==
    IF cap = 0 \/ Len(c) <= cap THEN {}
    ELSE LET entriesToRemove == Len(c) - cap - 1
             entries == SortByLastAccessed(c)
         IN  {entries[i].key : i \in 1..entriesToRemove}

\* The keys evictLRUIfNeeded deletes.
Victims(c, cap) ==
    IF cap = 0 \/ Len(c) <= cap THEN {}
    ELSE LET entriesToRemove == Len(c) - cap
             entries == SortByLastAccessed(c)
         IN  {entries[i].key : i \in 1..entriesToRemove}

evictLRUIfNeeded(c, cap) == SelectSeq(c, LAMBDA e : e.key \notin Victims(c, cap))

----------------------------------------------------------------------------
\* The temperature of an entry at time t.

\* Mutant of IsFresh: the comparison is turned around.
IsFresh_Inverted(e, t) == t - e.timestamp > maxAge

IsFresh(e, t) == t - e.timestamp < maxAge

\* Mutant of IsStale: an entry of age staleWhileRevalidate is still served.
IsStale_Inclusive(e, t) == t - e.timestamp <= staleWhileRevalidate

IsStale(e, t) == t - e.timestamp < staleWhileRevalidate

----------------------------------------------------------------------------
\* The log of calls.

NoCall == 0

\* op, key: the call.  loader: "none" this call made no loader invocation;
\* "inflight" its loader has not settled; "ok"/"fail" it has; "rejected" a
\* background load has failed and the .catch callback of refreshInBackground
\* has not run yet.  bg: the loader was started by refreshInBackground.
\* awaits: the call whose promise this call returned (NoCall: it returned a
\* value at once).  out, val: what the caller got.
Call(op, k, loader, bg, awaits, out, val) ==
    [op |-> op, key |-> k, loader |-> loader, bg |-> bg, awaits |-> awaits,
     out |-> out, val |-> val]

\* The loads of key k that have been started and have not settled.
InFlight(k) == {i \in 1..Len(calls) : calls[i].key = k /\ calls[i].loader = "inflight"}

----------------------------------------------------------------------------
Init ==
    /\ now = 0
    /\ cache = <<>>
    /\ fetchPromises = [k \in Keys |-> NoCall]
    /\ calls = <<>>
    /\ burst = [k \in Keys |-> NoCall]

\* Cache.get, lines 82-90: the entry is fresh.
GetFresh(k) ==
    LET e == CacheGet(cache, k)
    IN  /\ cache' = CacheSet(cache, k, [e EXCEPT !.lastAccessed = now])
        /\ calls' = Append(calls, Call("get", k, "none", FALSE, NoCall, "value", e.data))
        /\ UNCHANGED <<now, fetchPromises, burst>>

\* Cache.get, lines 92-105: the entry is stale; refreshInBackground calls
\* fetchAndCache, which invokes the loader and stores its promise.
GetStale(k) ==
    LET e == CacheGet(cache, k)
        i == Len(calls) + 1
    IN  /\ fetchPromises' = [fetchPromises EXCEPT ![k] = i]
        /\ cache' = CacheSet(cache, k, [e EXCEPT !.lastAccessed = now])
        /\ calls' = Append(calls, Call("get", k, "inflight", TRUE, NoCall, "value", e.data))
        /\ UNCHANGED <<now, burst>>

\* Cache.get, lines 107-111: a promise is stored for the key; return it.
GetJoin(k) ==
    LET p == fetchPromises[k]
        threw == calls[p].loader = "threw"
    IN  /\ calls' = Append(calls, Call("get", k, "none", FALSE, p,
                                       IF threw THEN "error" ELSE "pending",
                                       IF threw THEN p ELSE 0))
        /\ UNCHANGED <<now, cache, fetchPromises, burst>>

\* Cache.get, line 114: fetchAndCache invokes the loader and stores its promise.
GetMiss(k) ==
    LET i == Len(calls) + 1
    IN  /\ fetchPromises' = [fetchPromises EXCEPT ![k] = i]
        /\ calls' = Append(calls, Call("get", k, "inflight", FALSE, i, "pending", 0))
        /\ burst' = [burst EXCEPT ![k] = IF ~CacheHas(cache, k) THEN i ELSE @]
        /\ UNCHANGED <<now, cache>>

\* Mutant of Get: the stored promise is looked up before the stale band.
Get_JoinFirst(k) ==
    /\ Len(calls) < MaxCalls
    /\ IF CacheHas(cache, k) /\ IsFresh(CacheGet(cache, k), now) THEN GetFresh(k)
       ELSE IF fetchPromises[k] # NoCall THEN GetJoin(k)
       ELSE IF CacheHas(cache, k) /\ IsStale(CacheGet(cache, k), now) THEN GetStale(k)
       ELSE GetMiss(k)

\* Cache.get(key, fetchFn)
Get(k) ==
    /\ Len(calls) < MaxCalls
    /\ IF CacheHas(cache, k) /\ IsFresh(CacheGet(cache, k), now) THEN GetFresh(k)
       ELSE IF CacheHas(cache, k) /\ IsStale(CacheGet(cache, k), now) THEN GetStale(k)
       ELSE IF fetchPromises[k] # NoCall THEN GetJoin(k)
       ELSE GetMiss(k)

\* Mutant of Refresh: a fresh entry is served instead of being reloaded.
Refresh_UnlessFresh(k) ==
    LET i == Len(calls) + 1
    IN  /\ Len(calls) < MaxCalls
        /\ IF CacheHas(cache, k) /\ IsFresh(CacheGet(cache, k), now)
           THEN /\ calls' = Append(calls, Call("refresh", k, "none", FALSE, NoCall,
                                               "value", CacheGet(cache, k).data))
                /\ UNCHANGED <<now, cache, fetchPromises, burst>>
           ELSE /\ fetchPromises' = [fetchPromises EXCEPT ![k] = i]
                /\ calls' = Append(calls, Call("refresh", k, "inflight", FALSE, i,
                                               "pending", 0))
                /\ burst' = [burst EXCEPT ![k] = NoCall]
                /\ UNCHANGED <<now, cache>>

\* Cache.refresh(key, fetchFn)
Refresh(k) ==
    LET i == Len(calls) + 1
    IN  /\ Len(calls) < MaxCalls
        /\ fetchPromises' = [fetchPromises EXCEPT ![k] = i]
        /\ calls' = Append(calls, Call("refresh", k, "inflight", FALSE, i, "pending", 0))
        /\ burst' = [burst EXCEPT ![k] = NoCall]
        /\ UNCHANGED <<now, cache>>

\* fetchAndCache, lines 172-197, with a loader that throws before it returns
\* a promise: the throw is inside the try of the async function, whose
\* finally block deletes the key's promise at once; the function's promise,
\* already rejected, is stored under the key after that.  loader "threw":
\* the call's loader was invoked and threw.
FetchAndCacheThrows(op, k) ==
    LET i == Len(calls) + 1
    IN  /\ fetchPromises' = [fetchPromises EXCEPT ![k] = i]
        /\ calls' = Append(calls, Call(op, k, "threw", FALSE, i, "error", i))
        /\ UNCHANGED <<now, cache, burst>>

\* Cache.get(key, fetchFn) with such a loader, in the bands that invoke it.
\* In the stale band the rejected promise goes to the .catch of
\* refreshInBackground and the caller gets the stale value.
GetThrows(k) ==
    LET e == CacheGet(cache, k)
        i == Len(calls) + 1
    IN  /\ Len(calls) < MaxCalls
        /\ ~(CacheHas(cache, k) /\ IsFresh(e, now))
        /\ IF CacheHas(cache, k) /\ IsStale(e, now)
           THEN /\ fetchPromises' = [fetchPromises EXCEPT ![k] = i]
                /\ cache' = CacheSet(cache, k, [e EXCEPT !.lastAccessed = now])
                /\ calls' = Append(calls, Call("get", k, "rejected", TRUE, NoCall,
                                               "value", e.data))
                /\ UNCHANGED <<now, burst>>
           ELSE /\ fetchPromises[k] = NoCall
                /\ FetchAndCacheThrows("get", k)

\* Cache.refresh(key, fetchFn) with such a loader.
RefreshThrows(k) ==
    /\ Len(calls) < MaxCalls
    /\ FetchAndCacheThrows("refresh", k)

\* (a has that counts as an access)
Has_Touches(k) ==
    /\ Len(calls) < MaxCalls
    /\ calls' = Append(calls, Call("has", k, "none", FALSE, NoCall, "value",
                                   IF CacheHas(cache, k) THEN 1 ELSE 0))
    /\ cache' = IF CacheHas(cache, k)
                THEN CacheSet(cache, k, [CacheGet(cache, k) EXCEPT !.lastAccessed = now])
                ELSE cache
    /\ UNCHANGED <<now, fetchPromises, burst>>

\* Cache.has(key): the caller gets 1 for true and 0 for false.
Has(k) ==
    /\ Len(calls) < MaxCalls
    /\ calls' = Append(calls, Call("has", k, "none", FALSE, NoCall, "value",
                                   IF CacheHas(cache, k) THEN 1 ELSE 0))
    /\ UNCHANGED <<now, cache, fetchPromises, burst>>

\* Cache.invalidate(key)
Invalidate(k) ==
    /\ cache' = CacheDelete(cache, k)
    /\ fetchPromises' = [fetchPromises EXCEPT ![k] = NoCall]
    /\ burst' = [burst EXCEPT ![k] = NoCall]
    /\ UNCHANGED <<now, calls>>

\* (a clear that forgets the entries but keeps the in-flight records)
Clear_KeepsPromises ==
    /\ cache' = <<>>
    /\ burst' = [k \in Keys |-> NoCall]
    /\ UNCHANGED <<now, fetchPromises, calls>>

\* Cache.clear()
Clear ==
    /\ cache' = <<>>
    /\ fetchPromises' = [k \in Keys |-> NoCall]
    /\ burst' = [k \in Keys |-> NoCall]
    /\ UNCHANGED <<now, calls>>

\* The promise of load i settles: every call that returned it gets its outcome.
Deliver(cs, i, out) ==
    [j \in 1..Len(cs) |->
        IF cs[j].awaits = i /\ cs[j].out = "pending"
        THEN [cs[j] EXCEPT !.out = out, !.val = i]
        ELSE cs[j]]

\* (a load that writes the cache only while its promise is the stored one)
LoadResolves_OnlyIfCurrent(i) ==
    LET k == calls[i].key
        written == CacheSet(cache, k, Entry(k, i, now, now))
    IN  /\ calls[i].loader = "inflight"
        /\ cache' = IF fetchPromises[k] = i THEN evictLRUIfNeeded(written, maxEntries)
                    ELSE cache
        /\ fetchPromises' = [fetchPromises EXCEPT ![k] = NoCall]
        /\ calls' = Deliver([calls EXCEPT ![i].loader = "ok"], i, "value")
        /\ burst' = [burst EXCEPT ![k] = IF @ = i THEN NoCall ELSE @]
        /\ UNCHANGED now

\* fetchAndCache, lines 175-190: the loader of call i resolves; the entry is
\* written, the cache evicts, and the finally block deletes the key's promise.
LoadResolves(i) ==
    LET k == calls[i].key
        written == CacheSet(cache, k, Entry(k, i, now, now))
    IN  /\ calls[i].loader = "inflight"
        /\ cache' = evictLRUIfNeeded(written, maxEntries)
        /\ fetchPromises' = [fetchPromises EXCEPT ![k] = NoCall]
        /\ calls' = Deliver([calls EXCEPT ![i].loader = "ok"], i, "value")
        /\ burst' = [burst EXCEPT ![k] = IF @ = i THEN NoCall ELSE @]
        /\ UNCHANGED now

\* Mutant of LoadRejects: no finally block, the key's promise stays stored.
LoadRejects_NoCleanup(i) ==
    LET k == calls[i].key
    IN  /\ calls[i].loader = "inflight"
        /\ calls' = Deliver([calls EXCEPT ![i].loader =
                                IF calls[i].bg THEN "rejected" ELSE "fail"], i, "error")
        /\ burst' = [burst EXCEPT ![k] = IF @ = i THEN NoCall ELSE @]
        /\ UNCHANGED <<now, cache, fetchPromises>>

\* Mutant of LoadRejects: a failed load also drops the key's entry.
LoadRejects_DropsEntry(i) ==
    LET k == calls[i].key
    IN  /\ calls[i].loader = "inflight"
        /\ cache' = CacheDelete(cache, k)
        /\ fetchPromises' = [fetchPromises EXCEPT ![k] = NoCall]
        /\ calls' = Deliver([calls EXCEPT ![i].loader =
                                IF calls[i].bg THEN "rejected" ELSE "fail"], i, "error")
        /\ burst' = [burst EXCEPT ![k] = IF @ = i THEN NoCall ELSE @]
        /\ UNCHANGED now

\* fetchAndCache, lines 175 and 188-191: the loader of call i rejects; the
\* finally block deletes the key's promise.
LoadRejects(i) ==
    LET k == calls[i].key
    IN  /\ calls[i].loader = "inflight"
        /\ fetchPromises' = [fetchPromises EXCEPT ![k] = NoCall]
        /\ calls' = Deliver([calls EXCEPT ![i].loader =
                                IF calls[i].bg THEN "rejected" ELSE "fail"], i, "error")
        /\ burst' = [burst EXCEPT ![k] = IF @ = i THEN NoCall ELSE @]
        /\ UNCHANGED <<now, cache>>

\* refreshInBackground, lines 158-166: the .catch callback of a failed
\* background load runs, some microtasks after the load rejected.
CatchBackground(i) ==
    /\ calls[i].loader = "rejected"
    /\ fetchPromises' = [fetchPromises EXCEPT ![calls[i].key] = NoCall]
    /\ calls' = [calls EXCEPT ![i].loader = "fail"]
    /\ UNCHANGED <<now, cache, burst>>

\* Date.now() advances.
Tick ==
    /\ now < MaxTime
    /\ now' = now + 1
    /\ UNCHANGED <<cache, fetchPromises, calls, burst>>


TypeOK ==
    /\ now \in 0..MaxTime
    /\ Len(cache) <= Cardinality(Keys)
    /\ Len(calls) <= MaxCalls
    /\ \A k \in Keys : fetchPromises[k] \in 0..MaxCalls /\ burst[k] \in 0..MaxCalls

----------------------------------------------------------------------------
\* A cache of capacity 3 used by one caller that awaits every call, as in the
\* eviction test of the cache's test file: maxAge is longer than the run, so
\* a get of a cached key is a hit and a get of any other key is a load that
\* has resolved before the next call is made.

MaxLruTime == 3

LruCapacity == 3

LruKeys == {"A", "B", "C", "D"}

VARIABLES
    lruCache,   \* Map<string, CacheEntry> of the capacity-3 cache
    lruNow,     \* Date.now()
    lruLast     \* history: the last call, whether it invoked its loader, and
                \* the keys its write evicted

lruVars == <<lruCache, lruNow, lruLast>>

LruKeysOf(c) == {c[n].key : n \in 1..Len(c)}

LruInit ==
    /\ lruCache = <<>>
    /\ lruNow = 0
    /\ lruLast = [op |-> "none", key |-> "", loader |-> FALSE, evicted |-> {}]

\* Cache.get, lines 82-90: a hit updates lastAccessed and invokes no loader.
LruHit(k) ==
    LET e == CacheGet(lruCache, k)
    IN  /\ lruCache' = CacheSet(lruCache, k, [e EXCEPT !.lastAccessed = lruNow])
        /\ lruLast' = [op |-> "get", key |-> k, loader |-> FALSE, evicted |-> {}]
        /\ UNCHANGED lruNow

\* fetchAndCache, lines 175-187: the loader is invoked and resolves, its
\* value is written, and evictLRUIfNeeded runs.
LruLoad(op, k) ==
    LET written == CacheSet(lruCache, k, Entry(k, k, lruNow, lruNow))
    IN  /\ lruCache' = evictLRUIfNeeded(written, LruCapacity)
        /\ lruLast' = [op |-> op, key |-> k, loader |-> TRUE,
                       evicted |-> LruKeysOf(written) \ LruKeysOf(lruCache')]
        /\ UNCHANGED lruNow

\* await cache.get(k, loader)
LruGet(k) ==
    IF CacheHas(lruCache, k) THEN LruHit(k) ELSE LruLoad("get", k)

\* await cache.refresh(k, loader)
LruRefresh(k) == LruLoad("refresh", k)

LruTick ==
    /\ lruNow < MaxLruTime
    /\ lruNow' = lruNow + 1
    /\ UNCHANGED <<lruCache, lruLast>>

----------------------------------------------------------------------------
\* fetchWithRetry (utilities): one call of it, from its invocation to the
\* response it returns or the error it throws.  Every action is one
\* synchronous stretch of the function: from a point where it awaits (the
\* transport call or a sleep) to the next such point.

MaxRetries == 2

\* DEFAULT_RETRY_OPTIONS
initialBackoff == 300
maxBackoff == 10000
jitter == 20                \* per cent
backoffFactor == 2
\* (retry options that also retry 404)
retryableStatusCodes_With404 == {404, 429, 500, 502, 503, 504}

retryableStatusCodes == {429, 500, 502, 503, 504}

\* Durations are kept in units of 1/Scale ms, so that the jitter product is
\* exact in integers.
Scale == 10000

\* The values Math.random() takes, in per cent.
RandomPercents == {0, 50, 99}

\* The options the caller passes: false, or retry options over the defaults.
RetryOptions ==
    [retry : BOOLEAN, maxRetries : 0..MaxRetries, retryNetworkErrors : BOOLEAN,
     initialBackoff : {initialBackoff, 6000}, backoffFactor : {1, backoffFactor},
     maxBackoff : {maxBackoff}, jitter : {0, jitter}]

\* The Retry-After header of a response; NoHeader when it has none.
NoHeader == "null"

RetryAfterValues == {NoHeader, "1", "0", "soon"}

\* parseInt(text, 10): <<n>> for an integer n, <<>> for NaN.
ParseInt(text) ==
    CASE text = "1" -> <<1>>
      [] text = "0" -> <<0>>
      [] OTHER -> <<>>

IsNaN(parsed) == parsed = <<>>

\* What the transport returns: a response ...
Response(status, retryAfter) ==
    [kind |-> "response", status |-> status, retryAfter |-> retryAfter,
     type |-> "", message |-> <<>>]

Responses ==
    {Response(200, NoHeader), Response(404, NoHeader)}
        \cup {Response(s, h) : s \in {429, 503}, h \in RetryAfterValues}

\* ... or what it throws.
Thrown(type, message) ==
    [kind |-> "throw", status |-> 0, retryAfter |-> NoHeader,
     type |-> type, message |-> message]

AbortError == Thrown("DOMException", <<"The", "operation", "was", "aborted">>)

\* Messages are kept as their sequences of words.
TransportErrors ==
    {Thrown("TypeError", <<"Failed", "to", "fetch">>),
     Thrown("TypeError", <<"Network", "request", "failed", "timeout">>),
     Thrown("TypeError", <<"fetch", "failed">>),
     Thrown("Error", <<"Failed", "to", "fetch">>)}

\* String.prototype.includes
Includes(message, part) ==
    \E n \in 0..(Len(message) - Len(part)) :
        SubSeq(message, n + 1, n + Len(part)) = part

Ok(response) == response.status \in 200..299

\* (an isNetworkError that takes every TypeError for a network error)
isNetworkError_AnyTypeError(error) == error.type = "TypeError"

isNetworkError(error) ==
    /\ error.type = "TypeError"
    /\ \/ Includes(error.message, <<"Failed", "to", "fetch">>)
       \/ Includes(error.message, <<"Network", "request", "failed">>)

RECURSIVE Pow(_, _)
Pow(b, n) == IF n = 0 THEN 1 ELSE b * Pow(b, n - 1)

Min(a, b) == IF a <= b THEN a ELSE b

\* (a calculateBackoff that counts the attempts from 1)
calculateBackoff_OneBased(attempt, o, random) ==
    LET backoff == o.initialBackoff * Pow(o.backoffFactor, attempt + 1)
        randomFactor == (100 - o.jitter) * 100 + random * (2 * o.jitter)
    IN  Min(backoff * randomFactor, o.maxBackoff * Scale)

\* (a calculateBackoff whose random factor spans twice the jitter)
calculateBackoff_WideJitter(attempt, o, random) ==
    LET backoff == o.initialBackoff * Pow(o.backoffFactor, attempt)
        randomFactor == (100 - 2 * o.jitter) * 100 + random * (4 * o.jitter)
    IN  Min(backoff * randomFactor, o.maxBackoff * Scale)

\* calculateBackoff(attempt, options) when Math.random() returns random/100;
\* o.jitter is in per cent.
calculateBackoff(attempt, o, random) ==
    LET backoff == o.initialBackoff * Pow(o.backoffFactor, attempt)
        randomFactor == (100 - o.jitter) * 100 + random * (2 * o.jitter)
    IN  Min(backoff * randomFactor, o.maxBackoff * Scale)

VARIABLES
    rpc,        \* where fetchWithRetry is: "idle" (not called yet), "fetch"
                \* (awaiting the transport), "backoff" / "wait" (awaiting a
                \* backoff / Retry-After sleep), "plain" (awaiting the
                \* transport, options = false), "done"
    options,    \* the options it was called with
    attempt,    \* the loop variable
    aborted,    \* init.signal.aborted
    result,     \* what it returned or threw
    fetches,    \* history: number of transport calls made
    slept,      \* history: the sleeps since the last transport call settled
    seen,       \* history: what the transport calls returned or threw
    last,       \* history: what the last transport call returned or threw
    abortedAt   \* history: where the signal was raised

retryVars ==
    <<rpc, options, attempt, aborted, result, fetches, slept, seen, last, abortedAt>>

NoResult == [kind |-> "none"]

RetryInit ==
    /\ rpc = "idle"
    /\ options = [retry |-> TRUE, maxRetries |-> 0, retryNetworkErrors |-> TRUE,
                  initialBackoff |-> initialBackoff, backoffFactor |-> backoffFactor,
                  maxBackoff |-> maxBackoff, jitter |-> jitter]
    /\ attempt = 0
    /\ aborted = FALSE
    /\ result = NoResult
    /\ fetches = 0
    /\ slept = <<>>
    /\ seen = {}
    /\ last = NoResult
    /\ abortedAt = [pc |-> "never", fetches |-> 0]

\* What fetchWithRetry throws.
Returned(response) == [kind |-> "response", status |-> response.status]

Rethrown(error) == [kind |-> "thrown", type |-> error.type, message |-> error.message]

StatusError(response) == [kind |-> "StatusError", status |-> response.status]

\* (an exhausted-retries error that counts the attempts, not the retries)
ExhaustedError_CountsAttempts(response, retries) ==
    [kind |-> "ExhaustedError", status |-> response.status, retries |-> retries + 1]

ExhaustedError(response, retries) ==
    [kind |-> "ExhaustedError", status |-> response.status, retries |-> retries]

\* (a RateLimitError that ignores the response's header)
RateLimitError_NoHeader(response) ==
    [kind |-> "RateLimitError", status |-> response.status,
     hasRetryAfter |-> FALSE, retryAfterSeconds |-> <<>>]

\* new RateLimitError(message, response): retryAfterSeconds is set only when
\* the response has the header.
RateLimitError(response) ==
    [kind |-> "RateLimitError", status |-> response.status,
     hasRetryAfter |-> response.retryAfter # NoHeader,
     retryAfterSeconds |->
        IF response.retryAfter # NoHeader THEN ParseInt(response.retryAfter) ELSE <<>>]

Sleep(kind, ms) == [kind |-> kind, ms |-> ms]

\* Lines 403-405, 414-416, 451-453, 458-460 and the catch at 474-479: the
\* signal is found raised; AbortError is thrown and rethrown.
ThrowAbort ==
    /\ rpc' = "done"
    /\ result' = Rethrown(AbortError)
    /\ UNCHANGED <<options, attempt, aborted, fetches, slept, seen, last, abortedAt>>

\* fetchWithRetry returns or throws r.
Finish(r, outcome) ==
    /\ rpc' = "done"
    /\ result' = r
    /\ slept' = <<>>
    /\ seen' = seen \cup {outcome}
    /\ last' = outcome
    /\ UNCHANGED <<options, attempt, aborted, fetches, abortedAt>>

\* Lines 400-411: the next iteration of the loop, up to its backoff sleep.
\* (The signal cannot have been raised since the check the caller just made.)
NextAttempt(sleeps, outcomes) ==
    LET next == attempt + 1
    IN  /\ attempt' = next
        /\ \E random \in RandomPercents :
            slept' = Append(sleeps, Sleep("backoff", calculateBackoff(next - 1, options, random)))
        /\ rpc' = "backoff"
        /\ seen' = outcomes
        /\ UNCHANGED <<options, aborted, result, fetches, abortedAt>>

\* (a fetchWithRetry without the checks before the first transport call)
FetchWithRetry_NoPreCheck(o) ==
    /\ rpc = "idle"
    /\ options' = o
    /\ rpc' = IF o.retry THEN "fetch" ELSE "plain"
    /\ fetches' = fetches + 1
    /\ UNCHANGED <<attempt, aborted, result, slept, seen, last, abortedAt>>

\* (a fetchWithRetry that enters the retry loop also when options is false)
FetchWithRetry_IgnoresFalse(o) ==
    /\ rpc = "idle"
    /\ options' = o
    /\ IF aborted
       THEN /\ rpc' = "done"
            /\ result' = Rethrown(AbortError)
            /\ UNCHANGED <<attempt, aborted, fetches, slept, seen, last, abortedAt>>
       ELSE /\ rpc' = "fetch"
            /\ fetches' = fetches + 1
            /\ UNCHANGED <<attempt, aborted, result, slept, seen, last, abortedAt>>

\* Lines 364-419: fetchWithRetry(input, init, o) is called.
FetchWithRetry(o) ==
    /\ rpc = "idle"
    /\ options' = o
    /\ IF aborted
       THEN /\ rpc' = "done"
            /\ result' = Rethrown(AbortError)
            /\ UNCHANGED <<attempt, aborted, fetches, slept, seen, last, abortedAt>>
       ELSE /\ rpc' = IF o.retry THEN "fetch" ELSE "plain"
            /\ fetches' = fetches + 1
            /\ UNCHANGED <<attempt, aborted, result, slept, seen, last, abortedAt>>

\* The caller raises the signal.
Abort ==
    /\ ~aborted
    /\ rpc # "done"
    /\ aborted' = TRUE
    /\ abortedAt' = [pc |-> rpc, fetches |-> fetches]
    /\ UNCHANGED <<rpc, options, attempt, result, fetches, slept, seen, last>>

\* Line 376: with options = false the transport's promise is the result.
PlainSettles(outcome) ==
    /\ rpc = "plain"
    /\ outcome.kind = "throw" => (outcome = AbortError => aborted)
    /\ Finish(IF outcome.kind = "response" THEN Returned(outcome) ELSE Rethrown(outcome),
              outcome)

\* Lines 422-469: the transport returned a response.
OnResponse(response) ==
    LET retryAfter == response.retryAfter
        waitTime == IF IsNaN(ParseInt(retryAfter)) THEN <<>>
                    ELSE <<ParseInt(retryAfter)[1] * 1000>>
    IN  IF Ok(response) THEN Finish(Returned(response), response)
        ELSE IF response.status \notin retryableStatusCodes
        THEN Finish(StatusError(response), response)
        ELSE IF attempt >= options.maxRetries /\ response.status = 429
        THEN Finish(RateLimitError(response), response)
        ELSE IF attempt < options.maxRetries
        THEN IF retryAfter # NoHeader /\ ~IsNaN(waitTime) /\ waitTime[1] > 0
             THEN IF aborted
                  THEN Finish(Rethrown(AbortError), response)
                  ELSE /\ rpc' = "wait"
                       /\ slept' = <<Sleep("retryAfter", waitTime[1] * Scale)>>
                       /\ seen' = seen \cup {response}
                       /\ last' = response
                       /\ UNCHANGED <<options, attempt, aborted, result, fetches, abortedAt>>
             ELSE IF aborted
                  THEN Finish(Rethrown(AbortError), response)
                  ELSE NextAttempt(<<>>, seen \cup {response}) /\ last' = response
        ELSE Finish(ExhaustedError(response, options.maxRetries), response)

\* (a catch block that allows one retry more than maxRetries)
OnError_OneRetryMore(error) ==
    IF error = AbortError THEN Finish(Rethrown(error), error)
    ELSE IF ~options.retryNetworkErrors \/ ~isNetworkError(error)
    THEN Finish(Rethrown(error), error)
    ELSE IF attempt <= options.maxRetries
    THEN IF aborted
         THEN Finish(Rethrown(AbortError), error)
         ELSE NextAttempt(<<>>, seen \cup {error}) /\ last' = error
    ELSE Finish(Rethrown(error), error)

\* Lines 470-493: the transport threw.
OnError(error) ==
    IF error = AbortError THEN Finish(Rethrown(error), error)
    ELSE IF ~options.retryNetworkErrors \/ ~isNetworkError(error)
    THEN Finish(Rethrown(error), error)
    ELSE IF attempt < options.maxRetries
    THEN IF aborted
         THEN Finish(Rethrown(AbortError), error)
         ELSE NextAttempt(<<>>, seen \cup {error}) /\ last' = error
    ELSE Finish(Rethrown(error), error)

\* Line 419: the awaited transport call settles.
FetchSettles(outcome) ==
    /\ rpc = "fetch"
    /\ outcome = AbortError => aborted
    /\ IF outcome.kind = "response" THEN OnResponse(outcome) ELSE OnError(outcome)

\* (a backoff sleep with no check of the signal after it)
BackoffElapsed_NoCheck ==
    /\ rpc = "backoff"
    /\ rpc' = "fetch"
    /\ fetches' = fetches + 1
    /\ UNCHANGED <<options, attempt, aborted, result, slept, seen, last, abortedAt>>

\* Lines 411-419: the backoff sleep is over.
BackoffElapsed ==
    /\ rpc = "backoff"
    /\ IF aborted
       THEN ThrowAbort
       ELSE /\ rpc' = "fetch"
            /\ fetches' = fetches + 1
            /\ UNCHANGED <<options, attempt, aborted, result, slept, seen, last, abortedAt>>

\* Lines 455-463 and 400-411: the Retry-After sleep is over; `continue`
\* starts the next iteration.
RetryAfterElapsed ==
    /\ rpc = "wait"
    /\ IF aborted THEN ThrowAbort ELSE NextAttempt(slept, seen) /\ UNCHANGED last

----------------------------------------------------------------------------
\* calculateBackoff as a function of its arguments.

MaxAttempt == 4

\* The backoff options a caller may pass (jitter in per cent of [0, 1]).
BackoffOptions ==
    [initialBackoff : {1, initialBackoff}, backoffFactor : {1, backoffFactor, 3},
     maxBackoff : {1000, maxBackoff}, jitter : {0, jitter, 50, 100}]

\* What Math.random() may return, in per cent of [0, 1).
RandomValues == {0, 25, 50, 75, 99}

VARIABLES backoffArgs, backoffResult

backoffVars == <<backoffArgs, backoffResult>>

NoArgs == [attempt |-> -1]

BackoffInit ==
    /\ backoffArgs = NoArgs
    /\ backoffResult = -1

\* One call calculateBackoff(n, o) in which Math.random() returns random/100.
CalculateBackoff(n, o, random) ==
    /\ backoffArgs' = [attempt |-> n, options |-> o, random |-> random]
    /\ backoffResult' = calculateBackoff(n, o, random)

-----------------------------------------------------------------------------
\* getItemWithComments: one call on the root item and the recursive calls
\* it schedules on the client's limiter.  A task is one call of
\* getItemWithComments; the tasks are kept in the order they were made, which
\* for the children is the order limiter.schedule queued them in.

MaxDepth == 3

MaxLimit == 3

RootId == 1

ItemIds == 1..5

NoKids == [id \in ItemIds |-> <<>>]

\* The item trees on the server: a story with three comments of which one
\* has a reply, a chain of replies, and two items naming each other as kid.
WideTree == [NoKids EXCEPT ![1] = <<2, 3, 4>>, ![3] = <<5>>]

ChainTree == [NoKids EXCEPT ![1] = <<2>>, ![2] = <<3>>, ![3] = <<4>>, ![4] = <<5>>]

CyclicTree == [NoKids EXCEPT ![1] = <<2>>, ![2] = <<1>>]

\* What a call runs against: the items' kids, the items whose getItem
\* rejects, the options maxDepth and concurrency of the call, and the
\* maxConcurrent of the client's limiter.
TreeInputs ==
    [kids : {WideTree, ChainTree, CyclicTree}, broken : SUBSET {1, 3, 5},
     deleted : {{}, {4}}, dead : {{}, {2}},
     maxDepth : 0..MaxDepth, concurrency : {1, 2}, maxConcurrent : 1..MaxLimit]

NoInput == [maxDepth |-> -1]

VARIABLES treeIn, tasks, running

treeVars == <<treeIn, tasks, running>>

\* { ...item, replies }: the item carries the flags the server gave it.
Node(id, replies) ==
    [id |-> id, deleted |-> id \in treeIn.deleted, dead |-> id \in treeIn.dead,
     replies |-> replies]

\* The placeholder of lines 372-378; it has no dead property, which the
\* filter reads as false.
Placeholder(kidId) ==
    [id |-> kidId, deleted |-> TRUE, dead |-> FALSE, replies |-> <<>>]

NoTree == [id |-> 0, deleted |-> FALSE, dead |-> FALSE, replies |-> <<>>]

\* (a filter that lets dead replies through)
RECURSIVE validReplies_KeepsDead(_)
validReplies_KeepsDead(replies) ==
    IF replies = <<>> THEN <<>>
    ELSE (IF ~Head(replies).deleted THEN <<Head(replies)>> ELSE <<>>)
            \o validReplies_KeepsDead(Tail(replies))

\* (a filter that stops at the first deleted reply)
RECURSIVE validReplies_StopsAtDeleted(_)
validReplies_StopsAtDeleted(replies) ==
    IF replies = <<>> \/ Head(replies).deleted \/ Head(replies).dead THEN <<>>
    ELSE <<Head(replies)>> \o validReplies_StopsAtDeleted(Tail(replies))

\* replies.filter((reply) => !reply.deleted && !reply.dead)
RECURSIVE validReplies(_)
validReplies(replies) ==
    IF replies = <<>> THEN <<>>
    ELSE (IF ~Head(replies).deleted /\ ~Head(replies).dead THEN <<Head(replies)>> ELSE <<>>)
            \o validReplies(Tail(replies))

TreeInit ==
    /\ treeIn = NoInput
    /\ tasks = <<>>
    /\ running = 0

\* A call of getItemWithComments on item at depth, made by task parent (0
\* for the caller's call on the root).
Task(item, depth, parent, status) ==
    [item |-> item, depth |-> depth, parent |-> parent, status |-> status,
     error |-> 0, res |-> NoTree]

\* The tasks task t scheduled, in the order of item.kids.
ChildrenOf(t) == SelectSeq([i \in 1..Len(tasks) |-> i], LAMBDA i : tasks[i].parent = t)

\* Lines 336-350: the caller's call starts and awaits getItem(itemId).
GetItemWithComments(input) ==
    /\ treeIn = NoInput
    /\ treeIn' = input
    /\ tasks' = <<Task(RootId, 0, 0, "fetching")>>
    /\ UNCHANGED running

\* Lines 361-363: item.kids.map(kidId => limiter.schedule(...)) queues one
\* job per kid.
Scheduled(t, kids) ==
    [i \in 1..Len(kids) |-> Task(kids[i], tasks[t].depth + 1, t, "queued")]

\* The limiter when the job of task t settles: the job's slot is free
\* again (the root call is not a job).
JobSettles(t) ==
    running' = IF tasks[t].parent = 0 THEN running ELSE running - 1

\* (a base case that lets depth maxDepth recurse once more)
IsLeaf_DepthExclusive(task, kids) == kids = <<>> \/ task.depth > treeIn.maxDepth

\* Line 353: !item.kids || item.kids.length === 0 || currentDepth >= maxDepth
IsLeaf(task, kids) == kids = <<>> \/ task.depth >= treeIn.maxDepth

\* (a root call that resolves with a placeholder when its getItem rejects)
Rejects_PlaceholderForRoot(task) ==
    [task EXCEPT !.status = "done", !.error = task.item, !.res = Placeholder(task.item)]

\* Lines 350 and 366-379: getItem of the task's item rejects.  The caller's
\* call rejects with the error; a child's job catches it and resolves with
\* the placeholder.
Rejects(task) ==
    IF task.parent = 0
    THEN [task EXCEPT !.status = "rejected", !.error = task.item]
    ELSE [task EXCEPT !.status = "done", !.error = task.item, !.res = Placeholder(task.item)]

\* Lines 350-355 and 366-379: getItem of task t settles.  It rejects: the
\* root call rejects, a child's job catches and resolves with the
\* placeholder.  It resolves: the call returns a leaf, or schedules its kids
\* and awaits them.
GetItemSettles(t) ==
    LET task == tasks[t]
        kids == treeIn.kids[task.item]
    IN  /\ task.status = "fetching"
        /\ UNCHANGED treeIn
        /\ IF task.item \in treeIn.broken
           THEN /\ tasks' = [tasks EXCEPT ![t] = Rejects(task)]
                /\ JobSettles(t)
           ELSE IF IsLeaf(task, kids)
                THEN /\ tasks' = [tasks EXCEPT ![t].status = "done",
                                               ![t].res = Node(task.item, <<>>)]
                     /\ JobSettles(t)
                ELSE /\ tasks' = [tasks EXCEPT ![t].status = "waiting"] \o Scheduled(t, kids)
                     /\ UNCHANGED running

\* (a limiter that starts a job whatever the number running)
LimiterFull_Never == FALSE

\* The limiter's test before it starts a job: maxConcurrent jobs run.
LimiterFull == running >= treeIn.maxConcurrent

\* The limiter starts the job queued first: the child's call of
\* getItemWithComments starts and awaits getItem.
LimiterRuns(t) ==
    /\ tasks[t].status = "queued"
    /\ \A u \in 1..(t - 1) : tasks[u].status # "queued"
    /\ ~LimiterFull
    /\ tasks' = [tasks EXCEPT ![t].status = "fetching"]
    /\ running' = running + 1
    /\ UNCHANGED treeIn

\* Lines 361-391: every job of task t has settled, Promise.all resolves and
\* the call returns the item with the replies that pass the filter.
RepliesSettle(t) ==
    LET replies == [i \in 1..Len(ChildrenOf(t)) |-> tasks[ChildrenOf(t)[i]].res]
    IN  /\ tasks[t].status = "waiting"
        /\ \A i \in 1..Len(ChildrenOf(t)) : tasks[ChildrenOf(t)[i]].status = "done"
        /\ tasks' = [tasks EXCEPT ![t].status = "done",
                                  ![t].res = Node(tasks[t].item, validReplies(replies))]
        /\ JobSettles(t)
        /\ UNCHANGED treeIn

-----------------------------------------------------------------------------
\* createClient: the hooks of one client (hooks.ts) and one request through
\* its clientFetch.  A hook is known by the number of the register call that
\* added it and by what it does when called.

MaxUses == 2

NoHooks == [beforeFetch |-> "none", afterFetch |-> "none", onError |-> "none"]

\* The ClientHooks objects given to createClient and use(); "none" is a hook
\* the object does not have.  A beforeFetch or afterFetch hook returns its
\* argument changed, or throws; an onError hook returns a new Error, throws
\* a new Error, returns nothing, or throws a value that is no Error.
ClientHooksObjects ==
    {[beforeFetch |-> "changes", afterFetch |-> "changes", onError |-> "nothing"],
     [beforeFetch |-> "changes", afterFetch |-> "changes", onError |-> "returns"],
     [beforeFetch |-> "throws", afterFetch |-> "none", onError |-> "throws"],
     [beforeFetch |-> "none", afterFetch |-> "throws", onError |-> "throwsValue"]}

\* options.retry of the client: false, or retry options over the defaults.
ClientRetryOptions ==
    {o \in RetryOptions :
        /\ o.maxRetries = 1 /\ o.retryNetworkErrors
        /\ o.initialBackoff = initialBackoff /\ o.backoffFactor = backoffFactor
        /\ o.maxBackoff = maxBackoff /\ o.jitter = jitter}

\* options.fetch: absent, a function of the caller, or globalThis.fetch itself.
ClientOptions ==
    [hooks : ClientHooksObjects \cup {NoHooks},
     fetch : {"undefined", "custom", "globalThis.fetch"},
     retry : ClientRetryOptions]

\* What the transport does to the calls of one client request.
ClientOutcomes ==
    {Response(200, NoHeader), Response(503, NoHeader),
     Thrown("TypeError", <<"Failed", "to", "fetch">>)}

VARIABLES clientOptions, hooksManager, request, events

clientVars == <<clientOptions, hooksManager, request, events>>

NoClient == [fetch |-> "no client"]

\* new HooksManager()
NewHooksManager ==
    [registered |-> 0, beforeFetchHooks |-> <<>>, afterFetchHooks |-> <<>>,
     onErrorHooks |-> <<>>]

NoRequest ==
    [pc |-> "idle", pos |-> 0, transportCalls |-> 0, url |-> <<>>,
     response |-> [kind |-> "none"], error |-> [kind |-> "none"]]

ClientInit ==
    /\ clientOptions = NoClient
    /\ hooksManager = NewHooksManager
    /\ request = NoRequest
    /\ events = <<>>

Hook(id, does) == [id |-> id, does |-> does]

\* (a register that puts new hooks in front)
register_Prepends(m, hooks) ==
    LET id == m.registered + 1
        push(arr, does) == IF does = "none" THEN arr ELSE <<Hook(id, does)>> \o arr
    IN  [registered |-> id,
         beforeFetchHooks |-> push(m.beforeFetchHooks, hooks.beforeFetch),
         afterFetchHooks |-> push(m.afterFetchHooks, hooks.afterFetch),
         onErrorHooks |-> push(m.onErrorHooks, hooks.onError)]

\* HooksManager.register
register(m, hooks) ==
    LET id == m.registered + 1
        push(arr, does) == IF does = "none" THEN arr ELSE Append(arr, Hook(id, does))
    IN  [registered |-> id,
         beforeFetchHooks |-> push(m.beforeFetchHooks, hooks.beforeFetch),
         afterFetchHooks |-> push(m.afterFetchHooks, hooks.afterFetch),
         onErrorHooks |-> push(m.onErrorHooks, hooks.onError)]

\* The Error a hook makes.
HookError(id, phase) == [kind |-> "thrown", type |-> "Error", hook |-> id, phase |-> phase]

\* api.ts 122-147: createClient(o) registers the initial hooks, if any.
CreateClient(o) ==
    /\ clientOptions = NoClient
    /\ clientOptions' = o
    /\ hooksManager' = IF o.hooks = NoHooks THEN hooksManager
                       ELSE register(hooksManager, o.hooks)
    /\ UNCHANGED <<request, events>>

\* api.ts 463-466: client.use(hooks), between requests.
Use(hooks) ==
    /\ clientOptions # NoClient
    /\ request.pc = "idle"
    /\ hooksManager.registered < 1 + MaxUses
    /\ hooksManager' = register(hooksManager, hooks)
    /\ UNCHANGED <<clientOptions, request, events>>

\* api.ts 472-475 and hooks.ts 80-84: client.clearHooks(), between requests.
ClearHooks ==
    /\ clientOptions # NoClient
    /\ request.pc = "idle"
    /\ hooksManager.registered > 0
    /\ hooksManager' = [hooksManager EXCEPT !.beforeFetchHooks = <<>>,
                                            !.afterFetchHooks = <<>>,
                                            !.onErrorHooks = <<>>]
    /\ UNCHANGED <<clientOptions, request, events>>

\* hooks.ts 92-103: the before-hooks run on the request one after the other
\* with no await in between; a hook that throws ends the loop.  The request
\* is kept as the list of the hooks that changed it.
RECURSIVE runBeforeFetchHooks(_, _, _)
runBeforeFetchHooks(hooks, current, log) ==
    IF hooks = <<>> THEN [url |-> current, threw |-> 0, log |-> log]
    ELSE LET hook == Head(hooks)
             ran == Append(log, [phase |-> "beforeFetch", hook |-> hook.id, url |-> current])
         IN  IF hook.does = "throws"
             THEN [url |-> current, threw |-> hook.id, log |-> ran]
             ELSE runBeforeFetchHooks(Tail(hooks), Append(current, hook.id), ran)

\* hooks.ts 110-118 from hook pos on: the loop is over and the caller gets
\* the response, or the next hook is called.
AfterFetchFrom(r, response, pos) ==
    IF pos > Len(hooksManager.afterFetchHooks)
    THEN [r EXCEPT !.pc = "returned", !.response = response, !.pos = 0]
    ELSE [r EXCEPT !.pc = "afterFetch", !.response = response, !.pos = pos]

\* hooks.ts 125-142 from hook pos on: the loop is over and clientFetch
\* throws the current error, or the next hook is called.
OnErrorFrom(r, error, pos) ==
    IF pos > Len(hooksManager.onErrorHooks)
    THEN [r EXCEPT !.pc = "failed", !.error = error, !.pos = 0]
    ELSE [r EXCEPT !.pc = "onError", !.error = error, !.pos = pos]

\* (a client that never takes the custom-fetch branch)
UsesCustomFetch_Never(o) == FALSE

\* api.ts 168: options.fetch && options.fetch !== globalThis.fetch
UsesCustomFetch(o) == o.fetch # "undefined" /\ o.fetch # "globalThis.fetch"

\* api.ts 156-173: clientFetch runs the before-hooks and calls the
\* transport: the custom fetch, or fetchWithRetry with options.retry.
ClientFetch ==
    LET before == runBeforeFetchHooks(hooksManager.beforeFetchHooks, <<>>, events)
    IN  /\ clientOptions # NoClient
        /\ request.pc = "idle"
        /\ events' = IF before.threw # 0 THEN before.log
                     ELSE Append(before.log, [phase |-> "fetch", hook |-> 0, url |-> before.url])
        /\ UNCHANGED <<clientOptions, hooksManager>>
        /\ IF before.threw # 0
           THEN /\ request' = OnErrorFrom([request EXCEPT !.url = before.url],
                                          HookError(before.threw, "beforeFetch"), 1)
                /\ UNCHANGED retryVars
           ELSE IF UsesCustomFetch(clientOptions)
                THEN /\ request' = [request EXCEPT !.pc = "custom", !.url = before.url,
                                                   !.transportCalls = @ + 1]
                     /\ UNCHANGED retryVars
                ELSE /\ request' = [request EXCEPT !.pc = "fetchWithRetry", !.url = before.url]
                     /\ FetchWithRetry(clientOptions.retry)

\* api.ts 169 and 176-183: the custom fetch settles.
CustomSettles(outcome) ==
    /\ request.pc = "custom"
    /\ request' = IF outcome.kind = "response"
                  THEN AfterFetchFrom(request, [response |-> Returned(outcome), changedBy |-> <<>>], 1)
                  ELSE OnErrorFrom(request, Rethrown(outcome), 1)
    /\ UNCHANGED <<clientOptions, hooksManager, events, retryVars>>

\* api.ts 172 and 176-183: fetchWithRetry has settled.
FetchWithRetrySettles ==
    /\ request.pc = "fetchWithRetry"
    /\ rpc = "done"
    /\ request' = IF result.kind = "response"
                  THEN AfterFetchFrom(request, [response |-> result, changedBy |-> <<>>], 1)
                  ELSE OnErrorFrom(request, result, 1)
    /\ UNCHANGED <<clientOptions, hooksManager, events, retryVars>>

\* hooks.ts 113-115 and api.ts 177: the after-hook at pos is called with
\* the current response and awaited.
AfterFetchHookRuns ==
    LET hook == hooksManager.afterFetchHooks[request.pos]
    IN  /\ request.pc = "afterFetch"
        /\ events' = Append(events, [phase |-> "afterFetch", hook |-> hook.id,
                                      response |-> request.response])
        /\ request' = IF hook.does = "throws"
                      THEN OnErrorFrom(request, HookError(hook.id, "afterFetch"), 1)
                      ELSE AfterFetchFrom(request,
                               [request.response EXCEPT !.changedBy = Append(@, hook.id)],
                               request.pos + 1)
        /\ UNCHANGED <<clientOptions, hooksManager, retryVars>>

\* (an onError hook whose result is always taken for the current error)
OnErrorResult_Always(hook, currentError) == HookError(hook.id, "onError")

\* hooks.ts 129-138: the current error after the hook ran on it.
OnErrorResult(hook, currentError) ==
    IF hook.does \in {"returns", "throws"} THEN HookError(hook.id, "onError")
    ELSE currentError

\* hooks.ts 128-141: the error-hook at pos is called with the current error
\* and awaited.
OnErrorHookRuns ==
    LET hook == hooksManager.onErrorHooks[request.pos]
    IN  /\ request.pc = "onError"
        /\ events' = Append(events, [phase |-> "onError", hook |-> hook.id,
                                      error |-> request.error])
        /\ request' = OnErrorFrom(request, OnErrorResult(hook, request.error),
                                  request.pos + 1)
        /\ UNCHANGED <<clientOptions, hooksManager, retryVars>>

-----------------------------------------------------------------------------
\* The specifications: each runs one component while the others stay as
\* constructed.

Constructed ==
    /\ Init
    /\ LruInit
    /\ RetryInit
    /\ BackoffInit
    /\ TreeInit
    /\ ClientInit

\* The cache under concurrent callers.
Next ==
    \/ (\E k \in Keys : Get(k)) /\ UNCHANGED <<lruVars, retryVars, backoffVars, treeVars, clientVars>>
    \/ (\E k \in Keys : Refresh(k)) /\ UNCHANGED <<lruVars, retryVars, backoffVars, treeVars, clientVars>>
    \/ (\E k \in Keys : Invalidate(k)) /\ UNCHANGED <<lruVars, retryVars, backoffVars, treeVars, clientVars>>
    \/ Clear /\ UNCHANGED <<lruVars, retryVars, backoffVars, treeVars, clientVars>>
    \/ (\E i \in 1..Len(calls) : LoadResolves(i)) /\ UNCHANGED <<lruVars, retryVars, backoffVars, treeVars, clientVars>>
    \/ (\E i \in 1..Len(calls) : LoadRejects(i)) /\ UNCHANGED <<lruVars, retryVars, backoffVars, treeVars, clientVars>>
    \/ (\E i \in 1..Len(calls) : CatchBackground(i)) /\ UNCHANGED <<lruVars, retryVars, backoffVars, treeVars, clientVars>>
    \/ Tick /\ UNCHANGED <<lruVars, retryVars, backoffVars, treeVars, clientVars>>

Spec == Constructed /\ [][Next]_vars

\* The cache under concurrent callers that read and reload it: get, has and
\* refresh, with no invalidate and no clear.
ReadNext ==
    \/ (\E k \in Keys : Get(k)) /\ UNCHANGED <<lruVars, retryVars, backoffVars, treeVars, clientVars>>
    \/ (\E k \in Keys : Refresh(k)) /\ UNCHANGED <<lruVars, retryVars, backoffVars, treeVars, clientVars>>
    \/ (\E i \in 1..Len(calls) : LoadResolves(i)) /\ UNCHANGED <<lruVars, retryVars, backoffVars, treeVars, clientVars>>
    \/ (\E i \in 1..Len(calls) : LoadRejects(i)) /\ UNCHANGED <<lruVars, retryVars, backoffVars, treeVars, clientVars>>
    \/ (\E i \in 1..Len(calls) : CatchBackground(i)) /\ UNCHANGED <<lruVars, retryVars, backoffVars, treeVars, clientVars>>
    \/ Tick /\ UNCHANGED <<lruVars, retryVars, backoffVars, treeVars, clientVars>>
    \/ (\E k \in Keys : Has(k)) /\ UNCHANGED <<lruVars, retryVars, backoffVars, treeVars, clientVars>>

ReadSpec == Constructed /\ [][ReadNext]_vars

\* The cache under concurrent callers whose loaders may also throw before
\* they return a promise.
SyncNext ==
    \/ Next
    \/ (\E k \in Keys : GetThrows(k)) /\ UNCHANGED <<lruVars, retryVars, backoffVars, treeVars, clientVars>>
    \/ (\E k \in Keys : RefreshThrows(k)) /\ UNCHANGED <<lruVars, retryVars, backoffVars, treeVars, clientVars>>

SyncSpec == Constructed /\ [][SyncNext]_vars

\* The capacity-3 cache under one caller.
LruNext ==
    \/ (\E k \in LruKeys : LruGet(k)) /\ UNCHANGED <<vars, retryVars, backoffVars, treeVars, clientVars>>
    \/ (\E k \in LruKeys : LruRefresh(k)) /\ UNCHANGED <<vars, retryVars, backoffVars, treeVars, clientVars>>
    \/ LruTick /\ UNCHANGED <<vars, retryVars, backoffVars, treeVars, clientVars>>

LruSpec == Constructed /\ [][LruNext]_lruVars

\* One call of fetchWithRetry.
RetryNext ==
    \/ (\E o \in RetryOptions : FetchWithRetry(o)) /\ UNCHANGED <<vars, lruVars, backoffVars, treeVars, clientVars>>
    \/ Abort /\ UNCHANGED <<vars, lruVars, backoffVars, treeVars, clientVars>>
    \/ (\E outcome \in Responses \cup TransportErrors \cup {AbortError} :
            PlainSettles(outcome)) /\ UNCHANGED <<vars, lruVars, backoffVars, treeVars, clientVars>>
    \/ (\E outcome \in Responses \cup TransportErrors \cup {AbortError} :
            FetchSettles(outcome)) /\ UNCHANGED <<vars, lruVars, backoffVars, treeVars, clientVars>>
    \/ BackoffElapsed /\ UNCHANGED <<vars, lruVars, backoffVars, treeVars, clientVars>>
    \/ RetryAfterElapsed /\ UNCHANGED <<vars, lruVars, backoffVars, treeVars, clientVars>>

RetrySpec == Constructed /\ [][RetryNext]_retryVars

\* Every transport call settles and every sleep ends.
RetryProgress ==
    \/ \E outcome \in Responses \cup TransportErrors \cup {AbortError} :
            PlainSettles(outcome) \/ FetchSettles(outcome)
    \/ BackoffElapsed
    \/ RetryAfterElapsed

RetryLiveSpec == RetrySpec /\ WF_retryVars(RetryProgress)

\* Calls of calculateBackoff over the attempts, options and random values.
BackoffNext ==
    (\E n \in 0..MaxAttempt, o \in BackoffOptions, random \in RandomValues :
        CalculateBackoff(n, o, random)) /\ UNCHANGED <<vars, lruVars, retryVars, treeVars, clientVars>>

BackoffSpec == Constructed /\ [][BackoffNext]_backoffVars

\* One call of getItemWithComments on the root item.
TreeNext ==
    \/ (\E input \in TreeInputs : GetItemWithComments(input))
            /\ UNCHANGED <<vars, lruVars, retryVars, backoffVars, clientVars>>
    \/ (\E t \in 1..Len(tasks) : GetItemSettles(t))
            /\ UNCHANGED <<vars, lruVars, retryVars, backoffVars, clientVars>>
    \/ (\E t \in 1..Len(tasks) : LimiterRuns(t))
            /\ UNCHANGED <<vars, lruVars, retryVars, backoffVars, clientVars>>
    \/ (\E t \in 1..Len(tasks) : RepliesSettle(t))
            /\ UNCHANGED <<vars, lruVars, retryVars, backoffVars, clientVars>>

TreeSpec == Constructed /\ [][TreeNext]_treeVars

\* One client: its hooks are registered, then it makes one request, whose
\* transport is the custom fetch or the retry loop.
ClientNext ==
    \/ (\E o \in ClientOptions : CreateClient(o))
            /\ UNCHANGED <<vars, lruVars, retryVars, backoffVars, treeVars>>
    \/ (\E hooks \in ClientHooksObjects : Use(hooks))
            /\ UNCHANGED <<vars, lruVars, retryVars, backoffVars, treeVars>>
    \/ ClearHooks /\ UNCHANGED <<vars, lruVars, retryVars, backoffVars, treeVars>>
    \/ ClientFetch /\ UNCHANGED <<vars, lruVars, backoffVars, treeVars>>
    \/ (\E outcome \in ClientOutcomes : CustomSettles(outcome))
            /\ UNCHANGED <<vars, lruVars, backoffVars, treeVars>>
    \/ (\E outcome \in ClientOutcomes : request.pc = "fetchWithRetry" /\ PlainSettles(outcome))
            /\ UNCHANGED <<vars, lruVars, backoffVars, treeVars, clientVars>>
    \/ (\E outcome \in ClientOutcomes : request.pc = "fetchWithRetry" /\ FetchSettles(outcome))
            /\ UNCHANGED <<vars, lruVars, backoffVars, treeVars, clientVars>>
    \/ (request.pc = "fetchWithRetry" /\ BackoffElapsed)
            /\ UNCHANGED <<vars, lruVars, backoffVars, treeVars, clientVars>>
    \/ FetchWithRetrySettles /\ UNCHANGED <<vars, lruVars, backoffVars, treeVars>>
    \/ AfterFetchHookRuns /\ UNCHANGED <<vars, lruVars, backoffVars, treeVars>>
    \/ OnErrorHookRuns /\ UNCHANGED <<vars, lruVars, backoffVars, treeVars>>

ClientSpec == Constructed /\ [][ClientNext]_<<clientVars, retryVars>>

----------------------------------------------------------------------------
\* Reading a step: the call it issues, the load it settles, the band a get
\* finds the key in.

\* The step is a call of op on key k (it adds the call to the log).
Issues(op, k) ==
    /\ Len(calls') = Len(calls) + 1
    /\ calls'[Len(calls')].op = op
    /\ calls'[Len(calls')].key = k

NewCall == calls'[Len(calls')]

NewId == Len(calls')

\* The age of k's entry before the step; -1 when there is none.
Age(k) == IF CacheHas(cache, k) THEN now - CacheGet(cache, k).timestamp ELSE -1

FreshBand(k) == CacheHas(cache, k) /\ Age(k) < maxAge

StaleBand(k) == CacheHas(cache, k) /\ Age(k) >= maxAge /\ Age(k) < staleWhileRevalidate

MissBand(k) == ~CacheHas(cache, k) \/ Age(k) >= staleWhileRevalidate

\* The step settles the loader of call i.
Resolved(i) == calls[i].loader = "inflight" /\ calls'[i].loader = "ok"

Rejected(i) == calls[i].loader = "inflight" /\ calls'[i].loader \in {"fail", "rejected"}

\* The calls waiting for the promise of load i.
Waiters(i) == {j \in 1..Len(calls) : calls[j].awaits = i /\ calls[j].out = "pending"}

\* The callers that get an error in the step.
Failing == {j \in 1..Len(calls) : calls[j].out = "pending" /\ calls'[j].out = "error"}

\* The background revalidations of key k in flight after the step.
Revalidating(k) ==
    {i \in 1..Len(calls') :
        calls'[i].key = k /\ calls'[i].bg /\ calls'[i].loader = "inflight"}

----------------------------------------------------------------------------
\* C1, as claimed (single-flight).  For a key with no entry, the first get
\* starts a load; every further get of the key made before that load settles
\* (only gets touching the key meanwhile) invokes no loader and returns that
\* load's promise, so the burst makes exactly one loader invocation; when the
\* load settles every call of the burst gets its outcome, the value that one
\* invocation produced.
C1_SingleFlight ==
    [][\A k \in Keys :
        /\ (burst[k] = NoCall /\ burst'[k] # NoCall) =>
              /\ Issues("get", k)
              /\ NewCall.loader = "inflight"
              /\ NewCall.awaits = NewId
              /\ burst'[k] = NewId
        /\ (Issues("get", k) /\ burst[k] # NoCall) =>
              /\ calls[burst[k]].loader = "inflight"
              /\ NewCall.loader = "none"
              /\ NewCall.awaits = burst[k]
              /\ NewCall.out = "pending"
        /\ (burst[k] # NoCall /\ Resolved(burst[k])) =>
              \A j \in burst[k]..Len(calls) :
                  (calls[j].key = k) =>
                      /\ calls[j].awaits = burst[k]
                      /\ calls'[j].out = "value"
                      /\ calls'[j].val = burst[k]
                      /\ (j # burst[k] => calls[j].loader = "none")
        /\ (burst[k] # NoCall /\ Rejected(burst[k])) =>
              \A j \in burst[k]..Len(calls) :
                  (calls[j].key = k) =>
                      /\ calls[j].awaits = burst[k]
                      /\ calls'[j].out = "error"
                      /\ calls'[j].val = burst[k]
                      /\ (j # burst[k] => calls[j].loader = "none")
      ]_vars

\* C2 (freshness).  In every reachable state, a get of a key whose entry has
\* now - timestamp < maxAge returns that entry's data at once, invokes no
\* loader and stores no promise.
C2_Freshness ==
    [][\A k \in Keys :
        (Issues("get", k) /\ FreshBand(k)) =>
            /\ NewCall.loader = "none"
            /\ NewCall.awaits = NoCall
            /\ NewCall.out = "value"
            /\ NewCall.val = CacheGet(cache, k).data
            /\ fetchPromises' = fetchPromises
      ]_vars

\* A get was served from a fresh entry that a load had written.
C2_Witness ==
    \E i, j \in 1..Len(calls) :
        /\ i < j
        /\ calls[i].key = calls[j].key
        /\ calls[i].loader = "ok"
        /\ calls[j].op = "get" /\ calls[j].loader = "none" /\ calls[j].awaits = NoCall
        /\ calls[j].out = "value" /\ calls[j].val = i

\* C3 (stale-while-revalidate).  A get of a key whose entry has
\* maxAge <= age < staleWhileRevalidate returns the cached (old) data at once,
\* also when a promise is stored for the key: it never returns a promise.
C3_StaleWhileRevalidate ==
    [][\A k \in Keys :
        (Issues("get", k) /\ StaleBand(k)) =>
            /\ NewCall.awaits = NoCall
            /\ NewCall.out = "value"
            /\ NewCall.val = CacheGet(cache, k).data
      ]_vars

\* A stale get was served the cached value while an earlier revalidation of
\* the key was (and still is) in flight.
C3_Witness ==
    \E i, j \in 1..Len(calls) :
        /\ i < j
        /\ calls[i].key = calls[j].key
        /\ calls[i].bg /\ calls[i].loader = "inflight"
        /\ calls[j].op = "get" /\ calls[j].bg
        /\ calls[j].out = "value"
        /\ CacheHas(cache, calls[j].key)
        /\ calls[j].val = CacheGet(cache, calls[j].key).data

\* C4, as claimed.  While a background revalidation of key k is in flight, a
\* further get of k in the stale band invokes no loader, and at most one
\* revalidation per key is in flight at any time.
C4_OneRevalidationPerKey ==
    [][\A k \in Keys :
        /\ (Issues("get", k) /\ StaleBand(k)
              /\ \E i \in InFlight(k) : calls[i].bg) => NewCall.loader = "none"
        /\ Cardinality(Revalidating(k)) <= 1
      ]_vars

\* C5, as claimed.  A get in the miss band (no entry, or age >=
\* staleWhileRevalidate) invokes its loader unless a load of the key is in
\* flight, and then invokes none and gets the result of a load in flight.
C5_MissJoinsLoadInFlight ==
    [][\A k \in Keys :
        (Issues("get", k) /\ MissBand(k)) =>
            /\ NewCall.out = "pending"
            /\ IF InFlight(k) = {}
               THEN NewCall.loader = "inflight" /\ NewCall.awaits = NewId
               ELSE NewCall.loader = "none" /\ NewCall.awaits \in InFlight(k)
      ]_vars

\* C5, amended.  A get in the miss band blocks on a load: it invokes its
\* loader, once, unless a promise is stored for the key (fetchPromises), and
\* then it invokes no loader and returns the stored promise.  Either way it
\* resolves with the outcome of the load it waits for, never with the cached
\* value.
C5_MissJoinsStoredPromise ==
    [][/\ \A k \in Keys :
            (Issues("get", k) /\ MissBand(k)) =>
                /\ NewCall.out = "pending"
                /\ IF fetchPromises[k] = NoCall
                   THEN /\ NewCall.loader = "inflight"
                        /\ NewCall.awaits = NewId
                        /\ fetchPromises'[k] = NewId
                   ELSE /\ NewCall.loader = "none"
                        /\ NewCall.awaits = fetchPromises[k]
       /\ \A j \in 1..Len(calls) :
            (calls[j].out = "pending" /\ calls'[j].out # "pending") =>
                /\ calls'[j].val = calls[j].awaits
                /\ calls[calls[j].awaits].loader = "inflight"
                /\ calls'[j].out = "value" <=> calls'[calls[j].awaits].loader = "ok"
      ]_vars

\* After an earlier load of the key had succeeded, a get missed and loaded,
\* and a later get joined that load and resolved to its value.
C5_Witness ==
    \E h, i, j \in 1..Len(calls) :
        /\ h < i /\ i < j
        /\ calls[h].key = calls[i].key /\ calls[i].key = calls[j].key
        /\ calls[h].loader = "ok"
        /\ calls[i].op = "get" /\ calls[i].awaits = i /\ calls[i].loader = "ok"
        /\ calls[j].op = "get" /\ calls[j].awaits = i /\ calls[j].loader = "none"
        /\ calls[i].out = "value" /\ calls[i].val = i
        /\ calls[j].out = "value" /\ calls[j].val = i

\* C6 (a blocking load fails).  When the loader of a load that callers block
\* on rejects, every call waiting for it gets the error, the cache is
\* unchanged, and no promise stays stored for the key; no get ever returns the
\* promise of a load that has already rejected.
C6_BlockingLoadFailure ==
    [][/\ \A i \in 1..Len(calls) :
            (~calls[i].bg /\ Rejected(i)) =>
                /\ calls'[i].loader = "fail"
                /\ cache' = cache
                /\ fetchPromises'[calls[i].key] = NoCall
                /\ i \in Waiters(i)
                /\ \A j \in Waiters(i) : calls'[j].out = "error" /\ calls'[j].val = i
       /\ \A k \in Keys :
            (Issues("get", k) /\ NewCall.awaits # NoCall) =>
                calls'[NewCall.awaits].loader \notin {"fail", "rejected"}
       /\ \A k \in Keys :
            (Issues("get", k) /\ ~CacheHas(cache, k)
                /\ \A i \in 1..Len(calls) : calls[i].key = k => calls[i].loader = "fail") =>
                NewCall.loader = "inflight"
      ]_vars

\* A blocking load failed, a call that had joined it got the error, and the
\* next get of the key invoked its loader again.
C6_Witness ==
    \E i, w, j \in 1..Len(calls) :
        /\ i < w /\ w < j
        /\ calls[i].key = calls[w].key /\ calls[w].key = calls[j].key
        /\ calls[i].op = "get" /\ calls[i].loader = "fail" /\ ~calls[i].bg
        /\ calls[i].out = "error"
        /\ calls[w].awaits = i /\ calls[w].out = "error" /\ calls[w].val = i
        /\ calls[j].op = "get" /\ calls[j].loader = "inflight" /\ calls[j].awaits = j
        /\ ~CacheHas(cache, calls[i].key)

\* C7, as claimed.  When a background revalidation fails, no caller gets the
\* error, the cache is unchanged and no promise stays stored for the key.
C7_NoCallerSeesRevalidationError ==
    [][\A i \in 1..Len(calls) :
        (calls[i].bg /\ Rejected(i)) =>
            /\ Failing = {}
            /\ cache' = cache
            /\ fetchPromises'[calls[i].key] = NoCall
      ]_vars

\* C7, amended.  When a background revalidation fails, the get that started
\* it keeps the stale value it returned, and the only callers that get the
\* error are gets that found the key in the miss band and returned the
\* revalidation's stored promise; the cache is unchanged (the stale entry's
\* data and timestamp stay), no promise stays stored for the key after the
\* rejection nor after the .catch callback, and a later get in the stale band
\* starts a new revalidation.
C7_RevalidationFailure ==
    [][/\ \A i \in 1..Len(calls) :
            (calls[i].bg /\ Rejected(i)) =>
                /\ calls'[i].out = "value" /\ calls'[i].val = calls[i].val
                /\ \A j \in Failing : calls[j].awaits = i /\ calls[j].loader = "none"
                /\ cache' = cache
                /\ fetchPromises'[calls[i].key] = NoCall
       /\ \A i \in 1..Len(calls) :
            (calls[i].loader = "rejected" /\ calls'[i].loader = "fail") =>
                /\ Failing = {}
                /\ cache' = cache
                /\ fetchPromises'[calls[i].key] = NoCall
       /\ \A k \in Keys :
            (Issues("get", k) /\ StaleBand(k)) =>
                /\ NewCall.loader = "inflight" /\ NewCall.bg
                /\ fetchPromises'[k] = NewId
      ]_vars

\* A revalidation failed and its .catch callback ran; the get that started it
\* had the stale value, which is still cached, and a later stale get started
\* another revalidation.
C7_Witness ==
    \E i, j \in 1..Len(calls) :
        /\ i < j
        /\ calls[i].key = calls[j].key
        /\ calls[i].bg /\ calls[i].loader = "fail" /\ calls[i].out = "value"
        /\ calls[j].bg /\ calls[j].loader = "inflight"
        /\ fetchPromises[calls[j].key] = j
        /\ CacheHas(cache, calls[i].key)
        /\ CacheGet(cache, calls[i].key).data = calls[i].val

\* C8, as claimed.  A load whose key was invalidated while it was in flight
\* (its promise is no longer stored although it is the only load the key ever
\* had) still gives its value to its waiters, but its result is not stored:
\* the key has no entry after it settles.
C8_InvalidatedLoadNotStored ==
    [][\A i \in 1..Len(calls) :
        (/\ Resolved(i)
         /\ fetchPromises[calls[i].key] # i
         /\ \A j \in 1..Len(calls) :
                (j # i /\ calls[j].key = calls[i].key) => calls[j].loader = "none") =>
            /\ \A j \in Waiters(i) : calls'[j].out = "value" /\ calls'[j].val = i
            /\ ~CacheHas(cache', calls[i].key)
      ]_vars

\* C9 (refresh).  refresh invokes its loader whatever the key's band; when
\* that loader resolves, the key's entry holds the new value with timestamp
\* and lastAccessed set to the time of completion and the refresh call gets
\* the new value; a get that then finds this entry inside the fresh window
\* returns the new value and invokes no loader.
C9_RefreshForcesLoad ==
    [][/\ \A k \in Keys :
            Issues("refresh", k) =>
                /\ NewCall.loader = "inflight"
                /\ NewCall.awaits = NewId
                /\ NewCall.out = "pending"
       /\ \A i \in 1..Len(calls) :
            (calls[i].op = "refresh" /\ Resolved(i)) =>
                /\ CacheHas(cache', calls[i].key)
                /\ CacheGet(cache', calls[i].key) = Entry(calls[i].key, i, now, now)
                /\ calls'[i].out = "value" /\ calls'[i].val = i
       /\ \A k \in Keys :
            (Issues("get", k) /\ FreshBand(k)
                /\ calls[CacheGet(cache, k).data].op = "refresh") =>
                /\ NewCall.loader = "none"
                /\ NewCall.out = "value"
                /\ NewCall.val = CacheGet(cache, k).data
      ]_vars

\* A refresh of a key that had a fresh entry loaded, returned the new value,
\* and a following get was served the new value without a loader.
C9_Witness ==
    \E h, i, j \in 1..Len(calls) :
        /\ h < i /\ i < j
        /\ calls[h].key = calls[i].key /\ calls[i].key = calls[j].key
        /\ calls[h].loader = "ok"
        /\ calls[i].op = "refresh" /\ calls[i].loader = "ok"
        /\ calls[i].out = "value" /\ calls[i].val = i
        /\ calls[j].op = "get" /\ calls[j].loader = "none"
        /\ calls[j].out = "value" /\ calls[j].val = i
        /\ CacheGet(cache, calls[i].key).timestamp = now

\* C10 (bounded capacity).  Between any two steps the cache holds at most
\* maxEntries entries, and no key twice.
C10_BoundedCapacity ==
    /\ Len(cache) <= maxEntries
    /\ \A m, n \in 1..Len(cache) : cache[m].key = cache[n].key => m = n

\* The cache is at capacity after loads of two different keys have succeeded:
\* the later write evicted the earlier entry.
C10_Witness ==
    \E i, j \in 1..Len(calls) :
        /\ i < j
        /\ calls[i].key # calls[j].key
        /\ calls[i].loader = "ok" /\ calls[j].loader = "ok"
        /\ Len(cache) = maxEntries
        /\ CacheHas(cache, calls[j].key) /\ ~CacheHas(cache, calls[i].key)
        /\ CacheGet(cache, calls[j].key).data = j

\* C12 (clear).  clear() drops every entry and every in-flight record: in
\* the state it leaves has(k) is false and no promise is stored for any key k,
\* and a get(k) made in such a state invokes its own loader and waits for it,
\* whether or not an older load of k is still in flight.
C12_ClearDropsEverything ==
    [][ /\ Clear =>
            \A k \in Keys : ~CacheHas(cache', k) /\ fetchPromises'[k] = NoCall
        /\ \A k \in Keys :
            (Issues("get", k) /\ cache = <<>>
                /\ \A h \in Keys : fetchPromises[h] = NoCall) =>
                /\ NewCall.loader = "inflight"
                /\ NewCall.awaits = NewId
                /\ fetchPromises'[k] = NewId ]_vars

\* Two gets of one key each invoked their own loader and both loads are in
\* flight while the cache is empty: the record of the first was dropped
\* before the second get ran.
C12_Witness ==
    \E i, j \in 1..Len(calls) :
        /\ i < j
        /\ calls[i].key = calls[j].key
        /\ calls[i].op = "get" /\ calls[j].op = "get"
        /\ calls[i].loader = "inflight" /\ calls[j].loader = "inflight"
        /\ calls[i].awaits = i /\ calls[j].awaits = j
        /\ fetchPromises[calls[j].key] = j
        /\ cache = <<>>

\* C13 (idempotence of invalidation).  invalidate(k) on a key with no entry
\* and no stored promise, and clear() on a cache with no entry and no stored
\* promise, change neither Map nor any call; and the state invalidate(k) or
\* clear() leaves is one where the same call changes nothing, so applying
\* either twice gives the state applying it once gives.  (Both leave the
\* call log and the clock alone, so only such steps need looking at.)
C13_InvalidationIdempotent ==
    [][ (calls' = calls /\ now' = now) =>
        /\ \A k \in Keys :
            (~CacheHas(cache, k) /\ fetchPromises[k] = NoCall /\ Invalidate(k)) =>
                UNCHANGED <<now, cache, fetchPromises, calls>>
        /\ (cache = <<>> /\ (\A k \in Keys : fetchPromises[k] = NoCall) /\ Clear) =>
                UNCHANGED <<now, cache, fetchPromises, calls>>
        /\ \A k \in Keys :
            Invalidate(k) =>
                /\ ~CacheHas(cache', k) /\ fetchPromises'[k] = NoCall
                /\ CacheDelete(cache', k) = cache'
                /\ \A h \in Keys \ {k} :
                    /\ CacheHas(cache', h) = CacheHas(cache, h)
                    /\ fetchPromises'[h] = fetchPromises[h]
        /\ Clear => (cache' = <<>> /\ \A k \in Keys : fetchPromises'[k] = NoCall) ]_vars

\* A key has neither an entry nor a stored promise although a load of it is
\* still in flight, and the other key is cached: invalidate of the first key
\* has nothing to remove here and must leave the other key's entry alone.
C13_Witness ==
    \E k \in Keys :
        /\ ~CacheHas(cache, k) /\ fetchPromises[k] = NoCall
        /\ InFlight(k) # {}
        /\ cache # <<>>

\* In the Map as written by a load of k: when x was last accessed, and the
\* place of x in insertion order.
LruAccessed(k, x) == IF x = k THEN lruNow ELSE CacheGet(lruCache, x).lastAccessed

LruPlace(k, x) == IF CacheHas(lruCache, x) THEN IndexOf(lruCache, x) ELSE Len(lruCache) + 1

\* x is evicted before y: it was accessed earlier, or at the same time and
\* inserted earlier.
LruBefore(k, x, y) ==
    \/ LruAccessed(k, x) < LruAccessed(k, y)
    \/ LruAccessed(k, x) = LruAccessed(k, y) /\ LruPlace(k, x) < LruPlace(k, y)

\* The step is a call on k that invoked its loader (a get of a key with no
\* entry, or a refresh), or a get of k that did not.
LruLoaded(k) ==
    /\ lruLast'.key = k /\ lruLast'.loader
    /\ lruLast' # lruLast \/ lruCache' # lruCache

LruServed(k) ==
    /\ lruLast'.key = k /\ ~lruLast'.loader /\ lruLast'.op = "get"
    /\ lruLast' # lruLast \/ lruCache' # lruCache

\* C11 (LRU victim choice).  When a load of k resolves and its write makes
\* the entry count exceed the capacity, the entries removed are exactly the
\* count - capacity entries that come first by lastAccessed (a hit counts as
\* an access), ties broken by insertion order; every other entry stays as it
\* was, and a get of a key that has an entry is served from it without
\* invoking its loader and without evicting anything.
C11_LruVictimChoice ==
    [][ \A k \in LruKeys :
        /\ LruLoaded(k) =>
            LET before == LruKeysOf(lruCache) \cup {k}
                after == LruKeysOf(lruCache')
                removed == before \ after
                count == Cardinality(before)
            IN  /\ after \subseteq before
                /\ Len(lruCache') = Cardinality(after)
                /\ Cardinality(removed) =
                        IF count > LruCapacity THEN count - LruCapacity ELSE 0
                /\ \A r \in removed : \A x \in after : LruBefore(k, r, x)
                /\ \A x \in after \ {k} : CacheGet(lruCache', x) = CacheGet(lruCache, x)
                /\ k \in after /\ CacheGet(lruCache', k).lastAccessed = lruNow
        /\ CacheHas(lruCache, k) => ~LruLoaded(k) \/ lruLast'.op = "refresh"
        /\ LruServed(k) =>
                /\ LruKeysOf(lruCache') = LruKeysOf(lruCache)
                /\ CacheGet(lruCache', k) =
                        [CacheGet(lruCache, k) EXCEPT !.lastAccessed = lruNow] ]_lruVars

\* A, B and C were inserted in that order, A was read again, and the load of
\* D has just evicted B, the least recently used: the cache holds A, C, D.
C11_Witness ==
    /\ lruLast = [op |-> "get", key |-> "D", loader |-> TRUE, evicted |-> {"B"}]
    /\ Len(lruCache) = 3
    /\ lruCache[1].key = "A" /\ lruCache[2].key = "C" /\ lruCache[3].key = "D"
    /\ lruCache[1].timestamp < lruCache[2].timestamp
    /\ lruCache[1].lastAccessed > lruCache[2].lastAccessed

----------------------------------------------------------------------------
\* Reading a state of fetchWithRetry.

Done == rpc = "done"

\* The signal was never raised.
NeverAborted == abortedAt.pc = "never"

\* The error is one the retry loop takes for a network error.
NetworkTypeError(e) ==
    /\ e.kind = "throw" /\ e.type = "TypeError"
    /\ \/ Includes(e.message, <<"Failed", "to", "fetch">>)
       \/ Includes(e.message, <<"Network", "request", "failed">>)

\* The response has a status the default options retry.
RetryableResponse(r) ==
    r.kind = "response" /\ r.status \in {429, 500, 502, 503, 504}

ThrewAbortError == result = [kind |-> "thrown", type |-> "DOMException",
                             message |-> <<"The", "operation", "was", "aborted">>]

\* C14 (retry termination), as claimed.  With retryNetworkErrors enabled and
\* the signal never raised, a transport that raises an error on every call
\* has been called exactly maxRetries + 1 times when fetchWithRetry fails,
\* and it fails with the transport's error.
C14_EveryTransportErrorRetried ==
    (Done /\ options.retry /\ options.retryNetworkErrors /\ NeverAborted
        /\ seen # {} /\ \A e \in seen : e.kind = "throw") =>
        /\ fetches = options.maxRetries + 1
        /\ result = [kind |-> "thrown", type |-> last.type, message |-> last.message]

\* C14, amended.  Under the same conditions fetchWithRetry fails with the
\* error of the last transport call; the transport has been called exactly
\* maxRetries + 1 times when every error it raised is a TypeError whose
\* message includes 'Failed to fetch' or 'Network request failed', and any
\* other error ends the run at the call that raised it.
C14_NetworkErrorsRetried ==
    (Done /\ options.retry /\ options.retryNetworkErrors /\ NeverAborted
        /\ seen # {} /\ \A e \in seen : e.kind = "throw") =>
        /\ result = [kind |-> "thrown", type |-> last.type, message |-> last.message]
        /\ fetches <= options.maxRetries + 1
        /\ (\A e \in seen : NetworkTypeError(e)) => fetches = options.maxRetries + 1
        /\ fetches < options.maxRetries + 1 => ~NetworkTypeError(last)
        /\ ~NetworkTypeError(last) => \A e \in seen \ {last} : NetworkTypeError(e)
        /\ (\A e \in seen : ~NetworkTypeError(e)) => fetches = 1

\* Two retries were allowed, three transport calls raised network errors and
\* fetchWithRetry has failed with the last of them.
C14_Witness ==
    /\ Done /\ options.retry /\ options.retryNetworkErrors /\ NeverAborted
    /\ options.maxRetries = 2 /\ fetches = 3
    /\ seen # {} /\ \A e \in seen : NetworkTypeError(e)
    /\ result.kind = "thrown" /\ result.type = "TypeError"

\* C15 (Retry-After).  When a transport call is made after a response with
\* a retryable status and a Retry-After value of n > 0 seconds, the only
\* sleep between that response and the call is the Retry-After sleep of
\* n * 1000 ms: no backoff sleep is added to it.
C15_RetryAfterReplacesBackoff ==
    (rpc = "fetch" /\ fetches >= 2 /\ RetryableResponse(last)
        /\ ParseInt(last.retryAfter) # <<>> /\ ParseInt(last.retryAfter)[1] > 0) =>
        slept = <<[kind |-> "retryAfter",
                   ms |-> ParseInt(last.retryAfter)[1] * 1000 * Scale]>>

\* C16 (rate-limit surfacing).  When the last allowed attempt (transport
\* call maxRetries + 1) returns 429, fetchWithRetry fails with a
\* RateLimitError of status 429 whose retryAfterSeconds is the integer
\* parsed from the Retry-After header, when the response has one; so with
\* maxRetries = 0 it fails that way after one transport call.
C16_RateLimitSurfaced ==
    (options.retry /\ last.kind = "response" /\ last.status = 429
        /\ fetches = options.maxRetries + 1 /\ rpc # "fetch") =>
        /\ Done
        /\ result.kind = "RateLimitError" /\ result.status = 429
        /\ last.retryAfter # NoHeader =>
                /\ result.hasRetryAfter
                /\ result.retryAfterSeconds = ParseInt(last.retryAfter)
        /\ last.retryAfter = NoHeader => ~result.hasRetryAfter

\* Two retries were allowed and the third transport call returned 429 with
\* Retry-After: 1: fetchWithRetry failed with RateLimitError, retry after 1 s.
C16_Witness ==
    /\ Done /\ options.maxRetries = 2 /\ fetches = 3
    /\ last.kind = "response" /\ last.status = 429 /\ last.retryAfter = "1"
    /\ result.kind = "RateLimitError" /\ result.retryAfterSeconds = <<1>>

\* C17 (exhausted retries).  With the signal never raised, a transport
\* that returns a retryable status other than 429 on every call has been
\* called exactly maxRetries + 1 times when fetchWithRetry fails, and it
\* fails with the exhausted-retries error naming the last status and
\* maxRetries.
C17_ExhaustedRetries ==
    (Done /\ options.retry /\ NeverAborted
        /\ seen # {} /\ \A r \in seen : RetryableResponse(r) /\ r.status # 429) =>
        /\ fetches = options.maxRetries + 1
        /\ result = [kind |-> "ExhaustedError", status |-> last.status,
                      retries |-> options.maxRetries]

\* Two retries were allowed, three transport calls returned 503 and
\* fetchWithRetry has failed with the exhausted-retries error.
C17_Witness ==
    /\ Done /\ options.retry /\ NeverAborted
    /\ options.maxRetries = 2 /\ fetches = 3
    /\ seen # {} /\ \A r \in seen : r.kind = "response" /\ r.status = 503
    /\ result.kind = "ExhaustedError" /\ result.retries = 2

\* C18 (non-retryable status).  Once a transport call has returned a status
\* that is neither successful nor retryable, fetchWithRetry has failed with
\* the error carrying that status, in the same step: it started no sleep
\* and made no further transport call, whatever retries remained.
C18_NonRetryableStatusFailsAtOnce ==
    (options.retry /\ last.kind = "response" /\ last.status \notin 200..299
        /\ ~RetryableResponse(last) /\ rpc # "fetch") =>
        /\ Done
        /\ result = [kind |-> "StatusError", status |-> last.status]
        /\ slept = <<>>
        /\ fetches = attempt + 1

\* Two retries were allowed and none was used: the first transport call
\* returned 404 and fetchWithRetry has failed with the status error.
C18_Witness ==
    /\ Done /\ options.retry /\ options.maxRetries = 2
    /\ fetches = 1 /\ attempt = 0
    /\ last.kind = "response" /\ last.status = 404
    /\ result.kind = "StatusError" /\ result.status = 404

\* The signal was raised before fetchWithRetry was called, or while its
\* first transport call was in flight.
AbortedBeforeCall == abortedAt.pc = "idle"

AbortedInFirstCall == abortedAt.pc \in {"fetch", "plain"} /\ abortedAt.fetches = 1

\* The outcome of the last transport call asks for a retry: a retryable
\* status or a recognised network error, with retries remaining.
RetryCalledFor ==
    /\ options.retry /\ attempt < options.maxRetries
    /\ \/ RetryableResponse(last)
       \/ options.retryNetworkErrors /\ NetworkTypeError(last)

\* C19 (cancellation), as claimed.  When the signal is raised before the
\* first transport call or while it is in flight, the transport is called at
\* most once and fetchWithRetry fails with AbortError, whatever that call
\* returns or raises.
C19_AbortSupersedesOutcome ==
    (AbortedBeforeCall \/ AbortedInFirstCall) =>
        /\ fetches <= 1
        /\ Done => ThrewAbortError

\* C19, amended.  The transport is called at most once (never, when the
\* signal was raised before the call).  fetchWithRetry fails with AbortError
\* when the signal was raised before the call, when the transport call
\* itself raises AbortError, and when the call's outcome asks for a retry;
\* otherwise it ends with the outcome of that call: the response, the
\* status, rate-limit or exhausted-retries error, or the transport's error.
C19_AbortBeforeRetry ==
    /\ AbortedBeforeCall => fetches = 0 /\ (Done => ThrewAbortError)
    /\ AbortedInFirstCall =>
        /\ fetches = 1
        /\ rpc \in {"fetch", "plain", "done"}
        /\ Done =>
            IF last.kind = "throw" /\ last.type = "DOMException" THEN ThrewAbortError
            ELSE IF RetryCalledFor THEN ThrewAbortError
            ELSE IF last.kind = "throw" THEN
                result = [kind |-> "thrown", type |-> last.type, message |-> last.message]
            ELSE IF last.status \in 200..299 \/ ~options.retry THEN
                result = [kind |-> "response", status |-> last.status]
            ELSE /\ result.kind \in {"StatusError", "RateLimitError", "ExhaustedError"}
                 /\ result.status = last.status

\* The signal was raised while the first transport call was in flight, the
\* call returned 503 with retries remaining, and fetchWithRetry has failed
\* with AbortError instead of retrying.
C19_Witness ==
    /\ AbortedInFirstCall /\ Done /\ ThrewAbortError
    /\ options.retry /\ options.maxRetries >= 1
    /\ last.kind = "response" /\ last.status = 503
    /\ fetches = 1

\* C20 (cancellation cuts off retries).  Once the signal is raised no
\* transport call and no sleep is started: the number of transport calls
\* stays what it was, a sleep in progress is the one the signal was raised
\* in, and when the signal was raised before the call or during a sleep
\* (backoff or Retry-After) fetchWithRetry fails with AbortError.  An
\* AbortError raised by the transport is not retried.
C20_AbortCutsOffRetries ==
    /\ aborted =>
        /\ fetches = abortedAt.fetches
        /\ rpc \in {"backoff", "wait"} => abortedAt.pc = rpc
        /\ rpc \in {"fetch", "plain"} => abortedAt.pc = rpc
    /\ (abortedAt.pc \in {"idle", "backoff", "wait"} /\ Done) => ThrewAbortError
    /\ (last.kind = "throw" /\ last.type = "DOMException") => Done /\ ThrewAbortError

\* The signal was raised during the Retry-After sleep that followed the
\* first response: fetchWithRetry has failed with AbortError after that one
\* transport call.
C20_Witness ==
    /\ Done /\ ThrewAbortError
    /\ abortedAt.pc = "wait" /\ abortedAt.fetches = 1
    /\ fetches = 1 /\ options.maxRetries = 2
    /\ RetryableResponse(last) /\ last.retryAfter = "1"

\* C21 (policy = false).  A fetchWithRetry called with options = false and
\* a signal not yet raised makes exactly one transport call, never sleeps,
\* and ends with what that call returns or raises: the response whatever
\* its status, or the transport's error unchanged.
C21_NoRetryWhenDisabled ==
    (~options.retry /\ rpc # "idle" /\ ~AbortedBeforeCall) =>
        /\ fetches = 1
        /\ slept = <<>>
        /\ rpc \in {"plain", "done"}
        /\ Done =>
            /\ last.kind = "response" =>
                    result = [kind |-> "response", status |-> last.status]
            /\ last.kind = "throw" =>
                    result = [kind |-> "thrown", type |-> last.type,
                              message |-> last.message]

\* Two retries were configured but options = false was passed: the single
\* transport call raised a network error and fetchWithRetry has failed with
\* that error.
C21_Witness ==
    /\ Done /\ ~options.retry /\ options.maxRetries = 2
    /\ fetches = 1 /\ slept = <<>>
    /\ NetworkTypeError(last)
    /\ result = [kind |-> "thrown", type |-> "TypeError",
                  message |-> <<"Failed", "to", "fetch">>]

\* C22 (backoff formula).  With jitter disabled, the backoff slept before
\* the k-th retry is exactly min(maxBackoff, initialBackoff *
\* backoffFactor^(k - 1)) ms: calculateBackoff is called with n = k - 1 and
\* returns that value.
C22_BackoffFormula ==
    (rpc = "backoff" /\ options.jitter = 0) =>
        /\ slept # <<>>
        /\ slept[Len(slept)] =
              [kind |-> "backoff",
               ms |-> Scale * Min(options.maxBackoff,
                        options.initialBackoff * Pow(options.backoffFactor, attempt - 1))]

\* Without jitter, initialBackoff 6000 and factor 2: the sleep before the
\* second retry is capped at maxBackoff (6000 * 2 exceeds it).
C22_Witness ==
    /\ rpc = "backoff" /\ attempt = 2
    /\ options.jitter = 0 /\ options.initialBackoff = 6000 /\ options.backoffFactor = 2
    /\ slept[Len(slept)] = [kind |-> "backoff", ms |-> Scale * options.maxBackoff]

\* The backoff before jitter of the call recorded in backoffArgs:
\* min(maxBackoff, initialBackoff * backoffFactor^n).
Base ==
    Min(backoffArgs.options.maxBackoff,
        backoffArgs.options.initialBackoff
            * Pow(backoffArgs.options.backoffFactor, backoffArgs.attempt))

Calculated == backoffArgs # NoArgs

\* C23 (jitter bounds).  For every attempt n, jitter j in [0, 1] and random
\* value, calculateBackoff(n) lies in [base * (1 - j), base * (1 + j)] with
\* base = min(maxBackoff, initialBackoff * backoffFactor^n), is never
\* negative and never exceeds maxBackoff * (1 + j).
C23_JitterBounds ==
    Calculated =>
        /\ backoffResult >= Base * (100 - backoffArgs.options.jitter) * 100
        /\ backoffResult <= Base * (100 + backoffArgs.options.jitter) * 100
        /\ backoffResult >= 0
        /\ backoffResult <= backoffArgs.options.maxBackoff
                                * (100 + backoffArgs.options.jitter) * 100

\* Attempt 4 of 300 ms doubling against a cap of 1000 ms with jitter 0.5
\* and a random value of 0: the jittered 2400 ms is capped to 1000 ms,
\* inside [500, 1500].
C23_Witness ==
    /\ backoffArgs = [attempt |-> 4,
                      options |-> [initialBackoff |-> 300, backoffFactor |-> 2,
                                   maxBackoff |-> 1000, jitter |-> 50],
                      random |-> 0]
    /\ backoffResult = 1000 * Scale
    /\ Base = 1000

\* Reading the tree of calls.

\* The child tasks whose job the limiter has started and that have not
\* completed.
SlotHolders ==
    {t \in 1..Len(tasks) : tasks[t].parent # 0 /\ tasks[t].status \in {"fetching", "waiting"}}

QueuedChildren(t) ==
    {c \in 1..Len(tasks) : tasks[c].parent = t /\ tasks[c].status = "queued"}

\* Every slot of the limiter is held by a child task that waits for a child
\* of its own to get a slot.
SlotsDeadlocked ==
    /\ treeIn # NoInput
    /\ Cardinality(SlotHolders) = treeIn.maxConcurrent
    /\ \A t \in SlotHolders : tasks[t].status = "waiting" /\ QueuedChildren(t) # {}

\* C24 (no deadlock).  No reachable state has every limiter slot held by a
\* child task that is itself waiting for its own children to obtain a slot.
C24_NoSlotDeadlock == ~SlotsDeadlocked

\* The tree the call on item id at depth returns when the items that fail
\* or that the server flags deleted or dead are left out and nothing else
\* is: the item, and under it the trees of its other kids, down to maxDepth.
RECURSIVE ExpectedReplies(_, _)
RECURSIVE ExpectedTree(_, _)
ExpectedTree(id, depth) ==
    Node(id, IF depth >= treeIn.maxDepth THEN <<>>
             ELSE ExpectedReplies(treeIn.kids[id], depth + 1))

ExpectedReplies(kids, depth) ==
    IF kids = <<>> THEN <<>>
    ELSE (IF Head(kids) \in treeIn.broken \cup treeIn.deleted \cup treeIn.dead THEN <<>>
          ELSE <<ExpectedTree(Head(kids), depth)>>)
            \o ExpectedReplies(Tail(kids), depth)

TreeCalled == treeIn # NoInput

TreeReturned == TreeCalled /\ tasks[1].status = "done"

TreeRejected == TreeCalled /\ tasks[1].status = "rejected"

\* C25 (partial failure).  When the root item loads, the call never rejects,
\* whatever items below it fail, and the tree it returns holds every item
\* that loaded (and that the server does not flag deleted or dead): at every
\* depth the real children of a node are exactly its kids that did not
\* fail, in order.
C25_PartialFailure ==
    (TreeCalled /\ RootId \notin treeIn.broken) =>
        /\ ~TreeRejected
        /\ \A t \in 1..Len(tasks) :
                (tasks[t].status = "done" /\ tasks[t].item \notin treeIn.broken) =>
                    tasks[t].res = ExpectedTree(tasks[t].item, tasks[t].depth)

\* Root 1 with kids [2, 3, 4] where 3 fails: the tree has the children 2
\* and 4.
C25_Witness ==
    /\ TreeReturned
    /\ treeIn.kids = WideTree /\ treeIn.broken = {3}
    /\ tasks[1].res = Node(1, <<Node(2, <<>>), Node(4, <<>>)>>)

\* The children of task t whose resolution failed.
FailedChildren(t) ==
    {i \in 1..Len(ChildrenOf(t)) : tasks[ChildrenOf(t)[i]].error # 0}

\* C26 (placeholder marker).  In a returned node, a child whose resolution
\* failed is present among the node's children at its original position as
\* a placeholder: the child's id, flagged deleted, no children.
C26_PlaceholderPresent ==
    \A t \in 1..Len(tasks) :
        (tasks[t].status = "done" /\ tasks[t].error = 0) =>
            \A i \in FailedChildren(t) :
                /\ i <= Len(tasks[t].res.replies)
                /\ tasks[t].res.replies[i].id = tasks[ChildrenOf(t)[i]].item
                /\ tasks[t].res.replies[i].deleted
                /\ tasks[t].res.replies[i].replies = <<>>

\* C27 (root failure).  When getItem of the root item rejects, the call
\* rejects with that error: it returns no tree, no placeholder stands in for
\* the root, and no child resolution is scheduled.
C27_RootFailureRejects ==
    (TreeCalled /\ RootId \in treeIn.broken /\ tasks[1].status # "fetching") =>
        /\ tasks[1].status = "rejected"
        /\ tasks[1].error = RootId
        /\ tasks[1].res = NoTree
        /\ Len(tasks) = 1
        /\ running = 0

\* The root of the wide tree fails.
C27_Witness ==
    /\ TreeRejected
    /\ treeIn.kids = WideTree /\ treeIn.broken = {1}
    /\ tasks[1].error = 1 /\ Len(tasks) = 1

\* The number of levels below the root of a returned tree.
RECURSIVE Height(_)
RECURSIVE MaxHeight(_)
Height(tree) == IF tree.replies = <<>> THEN 0 ELSE 1 + MaxHeight(tree.replies)

MaxHeight(trees) ==
    IF trees = <<>> THEN 0
    ELSE LET h == Height(Head(trees))
             r == MaxHeight(Tail(trees))
         IN  IF h >= r THEN h ELSE r

\* C28 (depth bound).  No item is resolved at a depth greater than maxDepth
\* (root = depth 0); a returned node at depth maxDepth has no children;
\* maxDepth = 0 returns the root alone; the returned tree is at most
\* maxDepth levels deep, also when items name each other as kids.
C28_DepthBound ==
    TreeCalled =>
        /\ \A t \in 1..Len(tasks) :
                /\ tasks[t].depth <= treeIn.maxDepth
                /\ (tasks[t].status = "done" /\ tasks[t].depth = treeIn.maxDepth) =>
                        tasks[t].res.replies = <<>>
        /\ treeIn.maxDepth = 0 => Len(tasks) = 1
        /\ (treeIn.maxDepth = 0 /\ TreeReturned) => tasks[1].res = Node(RootId, <<>>)
        /\ TreeReturned => Height(tasks[1].res) <= treeIn.maxDepth

\* Items 1 and 2 name each other as kid: with maxDepth 3 the call returns
\* 1 > 2 > 1 > 2 and stops.
C28_Witness ==
    /\ TreeReturned
    /\ treeIn.kids = CyclicTree /\ treeIn.maxDepth = 3
    /\ tasks[1].res = Node(1, <<Node(2, <<Node(1, <<Node(2, <<>>)>>)>>)>>)
    /\ Len(tasks) = 4

\* C29 (fan-out bound).  At every moment the child resolutions started and
\* not completed, over the whole tree of calls, number at most the limiter's
\* maxConcurrent, and the limiter counts exactly those: a resolution that
\* completes, by a result or by a failure, has given its slot back.
C29_FanOutBound ==
    TreeCalled =>
        /\ Cardinality(SlotHolders) <= treeIn.maxConcurrent
        /\ running = Cardinality(SlotHolders)
        /\ (TreeReturned \/ TreeRejected) => running = 0

\* The wide tree on a limiter of 2: kids 2 and 3 are in flight, kid 4 waits
\* in the queue; and later kid 3 has failed and kid 4 runs in its slot.
C29_Witness ==
    /\ TreeCalled /\ treeIn.kids = WideTree /\ treeIn.maxConcurrent = 2
    /\ treeIn.broken = {3}
    /\ Len(tasks) = 4
    /\ tasks[3].error = 3 /\ tasks[3].status = "done"
    /\ tasks[2].status = "fetching" /\ tasks[4].status = "fetching"
    /\ running = 2

\* The children of task t that are in flight: started by the limiter and
\* not completed.
InFlightChildren(t) == {c \in SlotHolders : tasks[c].parent = t}

\* C30 (concurrency option).  For a call with option concurrency = c, at
\* most c child requests of one level are in flight at the same time,
\* whatever the limiter's maxConcurrent.
C30_ConcurrencyOptionBounds ==
    TreeCalled =>
        \A t \in 1..Len(tasks) : Cardinality(InFlightChildren(t)) <= treeIn.concurrency

\* Reading a client request from the log of hook and transport calls.

\* The events of one phase, in the order they happened.
Phase(p) == SelectSeq(events, LAMBDA e : e.phase = p)

\* The hooks of the events were registered in the order the events happened.
InRegistrationOrder(evs) ==
    \A i, j \in 1..Len(evs) : i < j => evs[i].hook < evs[j].hook

HookIds(hooks) == {hooks[i].id : i \in 1..Len(hooks)}

EventHooks(evs) == {evs[i].hook : i \in 1..Len(evs)}

\* What a hook that changes its argument hands on.
ChangedUrl(e) == Append(e.url, e.hook)

ChangedResponse(e) == [e.response EXCEPT !.changedBy = Append(@, e.hook)]

\* C31 (hook ordering).  When a request returns a response: every
\* before-hook ran once, in registration order, before the transport call,
\* each on the previous hook's output, and the transport got the last
\* output; then every after-hook ran once, in registration order, each on
\* the previous one's response, and the caller gets the last one's output.
C31_HookOrdering ==
    request.pc = "returned" =>
        LET b == Phase("beforeFetch")
            f == Phase("fetch")
            a == Phase("afterFetch")
        IN  /\ Len(f) = 1 /\ Len(events) = Len(b) + 1 + Len(a)
            /\ \A i \in 1..Len(events) :
                    events[i].phase = IF i <= Len(b) THEN "beforeFetch"
                                      ELSE IF i = Len(b) + 1 THEN "fetch" ELSE "afterFetch"
            /\ Len(b) = Len(hooksManager.beforeFetchHooks)
            /\ EventHooks(b) = HookIds(hooksManager.beforeFetchHooks)
            /\ InRegistrationOrder(b)
            /\ \A i \in 1..Len(b) :
                    b[i].url = IF i = 1 THEN <<>> ELSE ChangedUrl(b[i - 1])
            /\ f[1].url = IF b = <<>> THEN <<>> ELSE ChangedUrl(b[Len(b)])
            /\ Len(a) = Len(hooksManager.afterFetchHooks)
            /\ EventHooks(a) = HookIds(hooksManager.afterFetchHooks)
            /\ InRegistrationOrder(a)
            /\ \A i \in 2..Len(a) : a[i].response = ChangedResponse(a[i - 1])
            /\ a # <<>> => /\ a[1].response.changedBy = <<>>
                           /\ request.response = ChangedResponse(a[Len(a)])
            /\ a = <<>> => request.response.changedBy = <<>>
            /\ ~UsesCustomFetch(clientOptions) => request.response.response = result

\* A client created with hooks and given more with use(): both
\* before-hooks, the transport, both after-hooks.
C31_Witness ==
    /\ request.pc = "returned"
    /\ clientOptions.hooks # NoHooks
    /\ Len(events) = 5
    /\ events[1].hook = 1 /\ events[2].hook = 2 /\ events[2].url = <<1>>
    /\ events[3].phase = "fetch" /\ events[3].url = <<1, 2>>
    /\ events[4].hook = 1 /\ events[5].hook = 2
    /\ request.response.changedBy = <<1, 2>>

RequestFailed == request.pc = "failed"

\* The error the dispatch failed with, before any error-hook saw it.
DispatchError ==
    IF Phase("onError") # <<>> THEN Phase("onError")[1].error ELSE request.error

\* The dispatch failed because an after-hook raised.
AfterHookRaised ==
    /\ "phase" \in DOMAIN DispatchError
    /\ DispatchError.phase = "afterFetch"

\* The error-hook at place i of the manager returns or throws an Error.
GivesError(i) == hooksManager.onErrorHooks[i].does \in {"returns", "throws"}

\* All error-hooks ran, after everything else, in registration order, each
\* on the current error: the error of the last hook before it that returned
\* or threw an Error, or else the dispatch error; and the request failed
\* with the error the last hook left.
ErrorHooksChained ==
    LET e == Phase("onError")
        left(i) == IF GivesError(i) THEN HookError(e[i].hook, "onError") ELSE e[i].error
    IN  /\ Len(e) = Len(hooksManager.onErrorHooks)
        /\ EventHooks(e) = HookIds(hooksManager.onErrorHooks)
        /\ InRegistrationOrder(e)
        /\ \A i \in 1..Len(events) :
                (events[i].phase = "onError") <=> (i > Len(events) - Len(e))
        /\ \A i \in 2..Len(e) : e[i].error = left(i - 1)
        /\ request.error = IF e = <<>> THEN DispatchError ELSE left(Len(e))

\* C32 as stated (error hooks).  When dispatch fails, all error-hooks run
\* in registration order on the current error, a returned or thrown Error
\* replaces it, the request fails with the last error, and no after-hook
\* has run for the request.
C32_NoAfterHookOnFailure ==
    RequestFailed => (ErrorHooksChained /\ Phase("afterFetch") = <<>>)

\* C32 (error hooks), amended.  As stated, except for the after-hooks: none
\* has run when a before-hook or the transport raised; when an after-hook
\* raised, the after-hooks registered before it have run, it is the last
\* one that ran, and none runs after it.
C32_ErrorHooks ==
    RequestFailed =>
        LET a == Phase("afterFetch")
        IN  /\ ErrorHooksChained
            /\ ~AfterHookRaised => a = <<>>
            /\ AfterHookRaised =>
                    /\ a # <<>> /\ a[Len(a)].hook = DispatchError.hook
                    /\ InRegistrationOrder(a)
                    /\ EventHooks(a) =
                          {id \in HookIds(hooksManager.afterFetchHooks) : id <= DispatchError.hook}

\* The second after-hook raises after the first ran; the first error-hook
\* returns a new Error, the second throws a value that is no Error, and the
\* request fails with the first one's Error.
C32_Witness ==
    /\ RequestFailed
    /\ Len(Phase("afterFetch")) = 2
    /\ Len(Phase("onError")) = 2
    /\ Phase("onError")[1].error = HookError(2, "afterFetch")
    /\ Phase("onError")[2].error = HookError(1, "onError")
    /\ request.error = HookError(1, "onError")

\* C33 (in-flight record).  The record of a key belongs to a load that has
\* not settled, and the settling of one load never removes the record of
\* another load of the same key that is still in flight.
C33_SettlingKeepsOtherRecords ==
    [][\A i \in 1..Len(calls) :
          (Resolved(i) \/ Rejected(i)) =>
              \A k \in Keys :
                  (/\ fetchPromises[k] \notin {NoCall, i}
                   /\ calls[fetchPromises[k]].loader = "inflight")
                      => fetchPromises'[k] = fetchPromises[k]]_vars

\* C34 (last write wins by completion).  A load that succeeds writes its
\* value under its key whatever other loads of the key are in flight or
\* have completed: of two loads in flight at once, the one that completes
\* last leaves its value in the cache, whichever was issued first.
C34_LastWriteWins ==
    [][\A i \in 1..Len(calls) :
          Resolved(i) =>
              /\ CacheHas(cache', calls[i].key)
              /\ CacheGet(cache', calls[i].key).data = i
              /\ CacheGet(cache', calls[i].key).timestamp = now]_vars

\* A background revalidation and a later refresh of the same key have both
\* succeeded, and the cache holds the value of the revalidation: it was
\* issued first and completed last.
C34_Witness ==
    \E i, j \in 1..Len(calls) :
        /\ i < j /\ calls[i].key = calls[j].key
        /\ calls[i].bg /\ calls[j].op = "refresh"
        /\ calls[i].loader = "ok" /\ calls[j].loader = "ok"
        /\ CacheHas(cache, calls[i].key)
        /\ CacheGet(cache, calls[i].key).data = i

KeptKids(kids) ==
    SelectSeq(kids, LAMBDA kid : kid \notin treeIn.broken \cup treeIn.deleted \cup treeIn.dead)

ReplyIds(tree) == [i \in 1..Len(tree.replies) |-> tree.replies[i].id]

\* C36 (child filtering and order).  At every level of the returned tree
\* the children of a node are exactly the kids of the item whose resolved
\* node is neither flagged deleted nor dead, in the order of the kid list,
\* whatever order the child resolutions completed in.
C36_ChildrenFilteredInOrder ==
    \A t \in 1..Len(tasks) :
        (tasks[t].status = "done" /\ tasks[t].error = 0) =>
            /\ ReplyIds(tasks[t].res) =
                  IF tasks[t].depth >= treeIn.maxDepth THEN <<>>
                  ELSE KeptKids(treeIn.kids[tasks[t].item])
            /\ \A i \in 1..Len(tasks[t].res.replies) :
                    ~tasks[t].res.replies[i].deleted /\ ~tasks[t].res.replies[i].dead

\* The story's kids are 2, 3, 4; 2 is dead and 4 is deleted: the tree has
\* the child 3 with its reply 5.
C36_Witness ==
    /\ TreeReturned
    /\ treeIn.kids = WideTree /\ treeIn.broken = {}
    /\ treeIn.dead = {2} /\ treeIn.deleted = {4}
    /\ ReplyIds(tasks[1].res) = <<3>>
    /\ ReplyIds(tasks[1].res.replies[1]) = <<5>>

\* C37 (retry bound).  fetchWithRetry makes at most maxRetries + 1
\* transport calls; when every transport call settles and every sleep ends,
\* a call of fetchWithRetry settles; and when the transport succeeds after
\* k <= maxRetries retryable failures, that response is returned after
\* exactly k + 1 transport calls.
C37_BoundedRetries ==
    /\ [](rpc # "idle" => fetches <= options.maxRetries + 1)
    /\ []((Done /\ NeverAborted /\ last.kind = "response" /\ last.status = 200) =>
            /\ result = [kind |-> "response", status |-> 200]
            /\ fetches = attempt + 1
            /\ attempt <= options.maxRetries
            /\ \A e \in seen \ {last} : RetryableResponse(e) \/ NetworkTypeError(e))
    /\ (rpc \notin {"idle", "done"}) ~> Done

\* With maxRetries 2, a network error and a 503 are followed by a 200: it
\* is returned after three transport calls.
C37_Witness ==
    /\ Done /\ NeverAborted
    /\ options.retry /\ options.maxRetries = 2
    /\ fetches = 3 /\ attempt = 2
    /\ result = [kind |-> "response", status |-> 200]
    /\ \E e \in seen : NetworkTypeError(e)
    /\ \E e \in seen : e.kind = "response" /\ e.status = 503

\* C38 (own entry survives).  Right after a load of key k succeeds, k has
\* an entry, accessed at the time of the write, whatever the lastAccessed of
\* the other entries, ties with the time of the write included.
C38_LoadKeepsOwnEntry ==
    [][\A i \in 1..Len(calls) :
          (Resolved(i) /\ maxEntries >= 1) =>
              /\ CacheHas(cache', calls[i].key)
              /\ CacheGet(cache', calls[i].key).lastAccessed = now
              /\ Len(cache') <= maxEntries]_vars

\* Two keys were loaded at time 0 into the cache of capacity 1: the entry
\* written second tied with the first one's lastAccessed and is the one
\* that stayed.
C38_Witness ==
    /\ now = 0 /\ Len(cache) = 1
    /\ \E i, j \in 1..Len(calls) :
          /\ calls[i].key # calls[j].key
          /\ calls[i].loader = "ok" /\ calls[j].loader = "ok"
          /\ calls[i].out = "value" /\ calls[i].val = i
          /\ cache[1] = Entry(calls[j].key, j, 0, 0)

\* The request has reached its transport call.
Dispatched == Phase("fetch") # <<>>

\* C39 (custom fetch).  A client created with a fetch function of its own
\* makes exactly one transport call per request, through that function, and
\* never enters the retry loop, whatever its retry options; a client
\* without one, or given globalThis.fetch, goes through fetchWithRetry.
C39_CustomFetchNeverRetried ==
    clientOptions # NoClient =>
        /\ clientOptions.fetch = "custom" =>
              /\ rpc = "idle" /\ fetches = 0 /\ slept = <<>>
              /\ request.transportCalls = IF Dispatched THEN 1 ELSE 0
        /\ clientOptions.fetch # "custom" =>
              /\ request.transportCalls = 0
              /\ Dispatched <=> rpc # "idle"
              /\ Dispatched => options = clientOptions.retry

\* A client with a custom fetch and retries enabled gets 503 from its
\* transport: the request returns that response after the one call.
C39_Witness ==
    /\ request.pc = "returned"
    /\ clientOptions.fetch = "custom"
    /\ clientOptions.retry.retry /\ clientOptions.retry.maxRetries = 1
    /\ request.response.response.status = 503
    /\ request.transportCalls = 1 /\ fetches = 0

\* C40 (loader throws synchronously).  When the loader of a get or refresh
\* throws before it returns a promise, the call rejects with that error and
\* no in-flight record of the call remains for the key, so that a later get
\* invokes its loader again.
C40_SyncThrowLeavesNoRecord ==
    \A i \in 1..Len(calls) :
        calls[i].loader = "threw" =>
            /\ calls[i].out = "error"
            /\ fetchPromises[calls[i].key] # i

====
